---- MODULE Spec2Model ----
(***************************************************************************)
(* A model of the Etherscan transaction-history exporter: the retrying     *)
(* transport (makeRequest / requestWithRetry), the paginated category      *)
(* fetchers (GetAll...), the four raw-record converters with their         *)
(* math/big arithmetic, and the two orchestrations of main (whole-range    *)
(* mode with four goroutines, batch mode with a sequential chunk loop).    *)
(*                                                                         *)
(* A Go string is a sequence of one-character strings, so that parsing and *)
(* formatting are computed character by character.  A big.Int magnitude is *)
(* a sequence of decimal digits, least significant first, without high     *)
(* zeros (zero is the empty sequence).                                     *)
(***************************************************************************)
EXTENDS Integers, Sequences, FiniteSets, TLC

(***************************************************************************)
(* Characters and unbounded naturals                                       *)
(***************************************************************************)
DigitStr == <<"0", "1", "2", "3", "4", "5", "6", "7", "8", "9">>

DigitChars == {DigitStr[i] : i \in 1..10}

CharVal(c) == (CHOOSE i \in 1..10 : DigitStr[i] = c) - 1

Max(a, b) == IF a >= b THEN a ELSE b

Min(a, b) == IF a <= b THEN a ELSE b

\* the sequence a function on 1..n is
Tup(f, n) == SubSeq(f, 1, n)

\* the digits of a magnitude without its high zeros
Norm(a) ==
    IF a = <<>> \/ a[Len(a)] # 0 THEN a
    ELSE IF Len(a) > 1 /\ a[Len(a) - 1] # 0 THEN SubSeq(a, 1, Len(a) - 1)
    ELSE LET nz == {i \in 1..Len(a) : a[i] # 0}
         IN  IF nz = {} THEN <<>>
             ELSE SubSeq(a, 1, CHOOSE i \in nz : \A j \in nz : j <= i)

DigitAt(a, i) == IF i >= 1 /\ i <= Len(a) THEN a[i] ELSE 0

BigOne == <<1>>

BigIsOdd(a) == a # <<>> /\ a[1] % 2 = 1

BigDouble(a) ==
    Norm(Tup([i \in 1..(Len(a) + 1) |->
                ((2 * DigitAt(a, i)) % 10) + (IF DigitAt(a, i - 1) >= 5 THEN 1 ELSE 0)],
             Len(a) + 1))

\* a + 1: the low nines become zeros and the digit above them is raised
BigInc(a) ==
    IF \A i \in 1..Len(a) : a[i] = 9 THEN Tup([i \in 1..Len(a) |-> 0], Len(a)) \o <<1>>
    ELSE LET k == CHOOSE i \in 1..Len(a) : a[i] # 9 /\ \A j \in 1..(i - 1) : a[j] = 9
         IN  Tup([i \in 1..Len(a) |-> IF i < k THEN 0 ELSE IF i = k THEN a[i] + 1 ELSE a[i]],
                 Len(a))

\* -1, 0, 1 as a < b, a = b, a > b (both without high zeros)
BigCmp(a, b) ==
    IF Len(a) < Len(b) THEN -1
    ELSE IF Len(a) > Len(b) THEN 1
    ELSE LET diff == {i \in 1..Len(a) : a[i] # b[i]}
         IN  IF diff = {} THEN 0
             ELSE LET k == CHOOSE i \in diff : \A j \in diff : j <= i
                  IN  IF a[k] < b[k] THEN -1 ELSE 1

\* a magnitude in limbs of four digits, and back
LimbBase == 10000

Pow10(k) == IF k = 0 THEN 1 ELSE IF k = 1 THEN 10 ELSE IF k = 2 THEN 100 ELSE 1000

ToLimbs(a) ==
    Tup([j \in 1..((Len(a) + 3) \div 4) |->
            DigitAt(a, 4 * j - 3) + 10 * DigitAt(a, 4 * j - 2)
            + 100 * DigitAt(a, 4 * j - 1) + 1000 * DigitAt(a, 4 * j)],
        (Len(a) + 3) \div 4)

FromLimbs(l) ==
    Norm(Tup([i \in 1..(4 * Len(l)) |-> (l[((i - 1) \div 4) + 1] \div Pow10((i - 1) % 4)) % 10],
             4 * Len(l)))

\* the limbs of a sequence of column sums, carries propagated upwards
RECURSIVE Carry(_, _, _, _)
Carry(cols, i, c, out) ==
    IF c = 0 /\ Len(out) >= i - 1 /\ i > Len(cols) THEN out
    ELSE Carry(cols, i + 1, (DigitAt(cols, i) + c) \div LimbBase,
               Append(out, (DigitAt(cols, i) + c) % LimbBase))

RECURSIVE ColSum(_, _, _, _, _)
ColSum(a, b, k, i, acc) ==
    IF acc < 0 \/ i > Len(a) THEN acc
    ELSE ColSum(a, b, k, i + 1, acc + a[i] * DigitAt(b, k + 1 - i))

LimbMul(a, b) ==
    Carry(Tup([k \in 1..(Len(a) + Len(b) - 1) |-> ColSum(a, b, k, 1, 0)],
              Len(a) + Len(b) - 1), 1, 0, <<>>)

BigMul(a, b) ==
    IF a = <<>> \/ b = <<>> THEN <<>>
    ELSE FromLimbs(LimbMul(ToLimbs(a), ToLimbs(b)))

\* 2^32, 2^16, 2^8 and the same powers of 5: the long shifts go by these steps
PowTwo32 == <<6, 9, 2, 7, 6, 9, 4, 9, 2, 4>>

PowTwo16 == <<6, 3, 5, 5, 6>>

PowTwo8 == <<6, 5, 2>>

PowFive32 == <<5, 2, 6, 0, 9, 8, 2, 6, 9, 6, 8, 3, 5, 6, 3, 4, 6, 0, 3, 8, 2, 3, 2>>

PowFive16 == <<5, 2, 6, 0, 9, 8, 7, 8, 5, 2, 5, 1>>

PowFive8 == <<5, 2, 6, 0, 9, 3>>

\* a * 2^k and a * 5^k for a step k of 32, 16, 8, 4, 2 or 1
TimesPow2(a, k) ==
    BigMul(a, IF k = 32 THEN PowTwo32 ELSE IF k = 16 THEN PowTwo16
              ELSE IF k = 8 THEN PowTwo8 ELSE IF k = 4 THEN <<6, 1>>
              ELSE IF k = 2 THEN <<4>> ELSE <<2>>)

TimesPow5(a, k) ==
    BigMul(a, IF k = 32 THEN PowFive32 ELSE IF k = 16 THEN PowFive16
              ELSE IF k = 8 THEN PowFive8 ELSE IF k = 4 THEN <<5, 2, 6>>
              ELSE IF k = 2 THEN <<5, 2>> ELSE <<5>>)

\* the largest step that fits in a shift of n, and the step tried after k
StepFor(n) ==
    IF n >= 32 THEN 32 ELSE IF n >= 16 THEN 16 ELSE IF n >= 8 THEN 8
    ELSE IF n >= 4 THEN 4 ELSE IF n >= 2 THEN 2 ELSE 1

StepAfter(k, fits) == IF fits /\ k = 32 THEN 32 ELSE k \div 2

RECURSIVE Pow2From(_, _)
Pow2From(n, acc) ==
    IF acc = <<>> \/ n <= 0 THEN acc
    ELSE Pow2From(n - StepFor(n), TimesPow2(acc, StepFor(n)))

BigPow2(n) == Pow2From(n, BigOne)

\* a * 10^d and the two halves of a around digit d
BigShift10(a, d) == IF a = <<>> THEN <<>> ELSE Tup([i \in 1..d |-> 0], d) \o a

BigDiv10(a, d) == IF Len(a) <= d THEN <<>> ELSE SubSeq(a, d + 1, Len(a))

BigMod10(a, d) == Norm(SubSeq(a, 1, Min(d, Len(a))))

\* x.BitLen(): one more than the largest n with 2^n <= x (p is 2^n, q is
\* 2^(n+k), and the steps k are tried from the longest down)
RECURSIVE BitLenFrom(_, _, _, _, _)
BitLenFrom(a, p, n, k, q) ==
    IF k = 0 THEN n + 1
    ELSE IF BigCmp(q, a) <= 0
    THEN BitLenFrom(a, q, n + k, StepAfter(k, TRUE), TimesPow2(q, StepAfter(k, TRUE)))
    ELSE BitLenFrom(a, p, n, StepAfter(k, FALSE), TimesPow2(p, StepAfter(k, FALSE)))

BitLen(a) == IF a = <<>> THEN 0 ELSE BitLenFrom(a, BigOne, 0, 32, PowTwo32)

(***************************************************************************)
(* strconv and math/big as the converters use them                         *)
(***************************************************************************)
IsDigits(s) == s # <<>> /\ \A i \in 1..Len(s) : s[i] \in DigitChars

HasSign(s) == s # <<>> /\ s[1] \in {"+", "-"}

Unsigned(s) == IF HasSign(s) THEN Tail(s) ELSE s

\* the magnitude a string of digits denotes
MagOf(s) == Norm(Tup([i \in 1..Len(s) |-> CharVal(s[Len(s) + 1 - i])], Len(s)))

\* new(big.Int).SetString(s, 10): nil (ok = FALSE) unless s is an optional sign
\* followed by one or more decimal digits
SetString(s) ==
    IF IsDigits(Unsigned(s))
    THEN [ok |-> TRUE,
          neg |-> (s[1] = "-" /\ MagOf(Unsigned(s)) # <<>>),
          mag |-> MagOf(Unsigned(s))]
    ELSE [ok |-> FALSE, neg |-> FALSE, mag |-> <<>>]

Int64Bits == 63

\* 2^63, one more than the largest int64
Int64Limit == BigPow2(Int64Bits)

\* ParseInt with its error ignored, as the numeric fields' errors are
ParseIntLenient(s) ==
    IF ~IsDigits(Unsigned(s)) THEN [ok |-> TRUE, neg |-> FALSE, mag |-> <<>>]
    ELSE [ok |-> TRUE, neg |-> (s[1] = "-" /\ MagOf(Unsigned(s)) # <<>>),
          mag |-> MagOf(Unsigned(s))]

\* strconv.ParseInt(s, 10, 64): a syntax error unless sign and digits, a range
\* error outside [-2^63, 2^63 - 1]
ParseInt(s) ==
    IF ~IsDigits(Unsigned(s)) THEN [ok |-> FALSE, neg |-> FALSE, mag |-> <<>>]
    ELSE LET m == MagOf(Unsigned(s))
             n == (s[1] = "-")
             c == BigCmp(m, Int64Limit)
         IN  IF c > 0 \/ (c = 0 /\ ~n)
             THEN [ok |-> FALSE, neg |-> FALSE, mag |-> <<>>]
             ELSE [ok |-> TRUE, neg |-> (n /\ m # <<>>), mag |-> m]

\* x.Mul(y) on two parsed integers
IntMul(x, y) ==
    [ok |-> TRUE,
     neg |-> (x.neg # y.neg /\ x.mag # <<>> /\ y.mag # <<>>),
     mag |-> BigMul(x.mag, y.mag)]

FloatMinPrec == 64

\* the precision Quo gives its result: SetInt takes max(bits, 64) for each
\* operand and Quo the larger of the two
QuoPrec(mag, d) ==
    Max(FloatMinPrec, Max(BitLen(mag), BitLen(BigShift10(BigOne, d))))

\* the numerator doubled until its quotient by 10^d has prec bits (m is
\* n * 2^k, and the steps k are tried from the longest down)
RECURSIVE ScaleFrom(_, _, _, _, _, _)
ScaleFrom(n, d, lim, s, k, m) ==
    IF k = 0 THEN [n |-> m, s |-> s + 1]
    ELSE IF BigCmp(BigDiv10(m, d), lim) < 0
    THEN ScaleFrom(m, d, lim, s + k, StepAfter(k, TRUE), TimesPow2(m, Max(1, StepAfter(k, TRUE))))
    ELSE ScaleFrom(n, d, lim, s, StepAfter(k, FALSE), TimesPow2(n, Max(1, StepAfter(k, FALSE))))

ScaleUp(n, d, lim, s) ==
    IF BigCmp(BigDiv10(n, d), lim) >= 0 THEN [n |-> n, s |-> s]
    ELSE ScaleFrom(n, d, lim, s, 32, TimesPow2(n, 32))

\* the quotient rounded to nearest, ties to even
RoundQuo(n, d) ==
    LET q == BigDiv10(n, d)
        c == BigCmp(BigDouble(BigMod10(n, d)), BigShift10(BigOne, d))
    IN  IF c > 0 \/ (c = 0 /\ BigIsOdd(q)) THEN BigInc(q) ELSE q

\* new(big.Float).Quo(new(big.Float).SetInt(v), new(big.Float).SetInt(10^d)):
\* the float m / 2^s nearest to v / 10^d with a mantissa of QuoPrec bits
FloatQuo(v, d) ==
    IF v.mag = <<>> THEN [neg |-> FALSE, m |-> <<>>, s |-> 0]
    ELSE LET sc == ScaleUp(v.mag, d, BigPow2(QuoPrec(v.mag, d) - 1), 0)
         IN  [neg |-> v.neg, m |-> RoundQuo(sc.n, d), s |-> sc.s]

\* n * 5^s, by steps of 32, 16, 8, 4, 2 and 1 factors
RECURSIVE MulPow5(_, _)
MulPow5(n, s) ==
    IF n = <<>> \/ s <= 0 THEN n
    ELSE MulPow5(TimesPow5(n, StepFor(s)), s - StepFor(s))

\* n / 2^s rounded to nearest, ties to even: n * 5^s / 10^s, as decimal.init
\* computes it
ShiftRound(n, s) == RoundQuo(MulPow5(n, s), s)

\* the digits of n, most significant first, at least w of them
DigitsOf(n, w) ==
    Tup([i \in 1..Max(w, Len(n)) |-> DigitStr[DigitAt(n, Max(w, Len(n)) + 1 - i) + 1]],
        Max(w, Len(n)))

\* n / 10^prec written with prec fractional digits
FormatFixed(neg, n, prec) ==
    LET ds == DigitsOf(n, prec + 1)
    IN  (IF neg THEN <<"-">> ELSE <<>>)
        \o SubSeq(ds, 1, Len(ds) - prec)
        \o (IF prec > 0 THEN <<".">> \o SubSeq(ds, Len(ds) - prec + 1, Len(ds))
            ELSE <<>>)

\* f.Text('f', prec), prec >= 0: the exact decimal expansion of f rounded to
\* prec fractional digits
FloatText(f, prec) ==
    FormatFixed(f.neg, ShiftRound(BigShift10(f.m, prec), f.s), prec)

WeiDecimals == 18

\* wei (or gas fee in wei) to the ETH string of lines 736-745
WeiToEthStr(v) == FloatText(FloatQuo(v, WeiDecimals), WeiDecimals)

\* a parsed magnitude of at most nine digits as a number
RECURSIVE SmallFrom(_, _, _)
SmallFrom(mag, i, acc) ==
    IF acc < 0 \/ i = 0 THEN acc ELSE SmallFrom(mag, i - 1, 10 * acc + mag[i])

SmallInt(mag) == SmallFrom(mag, Len(mag), 0)

AtoiDigits == 9

\* 2^63 - 1, the largest int64
Int64Max == MagOf(<<"9","2","2","3","3","7","2","0","3","6","8","5","4","7","7","5","8","0","7">>)

\* 2^64, one more than the largest uint64
Uint64Limit == BigDouble(Int64Limit)

\* the digits a text starts with
DigitPrefix(u) ==
    LET bad == {i \in 1..Len(u) : u[i] \notin DigitChars}
    IN  IF bad = {} THEN u
        ELSE SubSeq(u, 1, (CHOOSE i \in bad : \A j \in bad : i <= j) - 1)

\* strconv.Atoi(s) with its error dropped.  The text is read from the left
\* after its sign: digits that pass the largest uint64 give a range error at
\* once, whatever follows them, and the nearest int64; a byte that is no
\* digit met before that, or no digit at all, gives a syntax error and 0;
\* else the number is returned with its sign, or the nearest int64 after a
\* range error.  "huge" marks a positive number of more than AtoiDigits
\* digits, an exponent no power of ten can be computed for (a number <= 0 is
\* never one: its power is 1)
Atoi(s) ==
    LET u == Unsigned(s)
        n == (HasSign(s) /\ s[1] = "-")
        m == MagOf(DigitPrefix(u))
        c == BigCmp(m, Int64Limit)
    IN  IF BigCmp(m, Uint64Limit) < 0 /\ ~IsDigits(u)
        THEN [huge |-> FALSE, neg |-> FALSE, mag |-> <<>>]
        ELSE IF c > 0 \/ (c = 0 /\ ~n)
        THEN [huge |-> ~n, neg |-> n, mag |-> IF n THEN Int64Limit ELSE Int64Max]
        ELSE [huge |-> (~n /\ Len(m) > AtoiDigits), neg |-> (n /\ m # <<>>), mag |-> m]

(***************************************************************************)
(* The canonical transaction and the four converters                       *)
(***************************************************************************)
\* a normal transaction classified as a contract call
TypeOfContractCall == "CONTRACT_CALL"

TypeEthTransfer == "ETH_TRANSFER"

TypeERC20Transfer == "ERC20_TRANSFER"

TypeERC721Transfer == "ERC721_TRANSFER"

TypeInternalTx == "INTERNAL_TRANSFER"

\* models.Transaction{}
ZeroTransaction ==
    [Hash |-> "", Timestamp |-> [neg |-> FALSE, mag |-> <<>>], From |-> "", To |-> "",
     Type |-> "", AssetContractAddr |-> "", AssetSymbol |-> "", TokenID |-> "",
     Value |-> <<>>, GasFee |-> <<>>]

ConvError == [status |-> "error", tx |-> ZeroTransaction]

\* a nil *big.Int dereferenced: the goroutine panics and the process dies
ConvPanic == [status |-> "panic", tx |-> ZeroTransaction]

\* a power of ten too large to compute
ConvExhausted == [status |-> "exhausted", tx |-> ZeroTransaction]

ConvOk(tx) == [status |-> "ok", tx |-> tx]

Unix(ts) == [neg |-> ts.neg, mag |-> ts.mag]

\* gasPrice * gasUsed in ETH, lines 731-740
GasFeeStr(gasPrice, gasUsed) == WeiToEthStr(IntMul(gasPrice, gasUsed))

ConvertNormalTxToModel(tx) ==
    LET timestamp == ParseInt(tx.TimeStamp)
        gasPrice == SetString(tx.GasPrice)
        gasUsed == SetString(tx.GasUsed)
        valueWei == SetString(tx.Value)
    IN  IF ~timestamp.ok THEN ConvError
        ELSE IF ~gasPrice.ok \/ ~gasUsed.ok THEN ConvPanic
        ELSE IF ~valueWei.ok THEN ConvPanic
        ELSE ConvOk([Hash |-> tx.Hash, Timestamp |-> Unix(timestamp),
                     From |-> tx.From, To |-> tx.To, Type |-> TypeEthTransfer,
                     AssetContractAddr |-> "", AssetSymbol |-> "", TokenID |-> "",
                     Value |-> WeiToEthStr(valueWei),
                     GasFee |-> GasFeeStr(gasPrice, gasUsed)])

ConvertInternalTxToModel(tx) ==
    LET timestamp == ParseInt(tx.TimeStamp)
        valueWei == SetString(tx.Value)
    IN  IF ~timestamp.ok THEN ConvError
        ELSE IF ~valueWei.ok THEN ConvPanic
        ELSE ConvOk([Hash |-> tx.Hash, Timestamp |-> Unix(timestamp),
                     From |-> tx.From, To |-> tx.To, Type |-> TypeInternalTx,
                     AssetContractAddr |-> "", AssetSymbol |-> "", TokenID |-> "",
                     Value |-> WeiToEthStr(valueWei),
                     GasFee |-> <<"0">>])

\* the token amount of lines 800-804: value / 10^decimals with decimals
\* fractional digits; a power with an exponent <= 0 is 1, and Text with a
\* negative digit count writes the shortest form, which for a whole number is
\* the number
TokenValueStr(tokenValue, tokenDecimals) ==
    IF ~tokenDecimals.neg /\ tokenDecimals.mag # <<>>
    THEN FloatText(FloatQuo(tokenValue, SmallInt(tokenDecimals.mag)),
                   SmallInt(tokenDecimals.mag))
    ELSE FormatFixed(tokenValue.neg, tokenValue.mag, 0)

ConvertERC20TxToModel(tx) ==
    LET timestamp == ParseInt(tx.TimeStamp)
        gasPrice == SetString(tx.GasPrice)
        gasUsed == SetString(tx.GasUsed)
        tokenDecimals == Atoi(tx.TokenDecimal)
        tokenValue == SetString(tx.Value)
    IN  IF ~timestamp.ok THEN ConvError
        ELSE IF ~gasPrice.ok \/ ~gasUsed.ok THEN ConvPanic
        ELSE IF tokenDecimals.huge THEN ConvExhausted
        ELSE IF ~tokenValue.ok THEN ConvPanic
        ELSE ConvOk([Hash |-> tx.Hash, Timestamp |-> Unix(timestamp),
                     From |-> tx.From, To |-> tx.To, Type |-> TypeERC20Transfer,
                     AssetContractAddr |-> tx.ContractAddress,
                     AssetSymbol |-> tx.TokenSymbol, TokenID |-> "",
                     Value |-> TokenValueStr(tokenValue, tokenDecimals),
                     GasFee |-> GasFeeStr(gasPrice, gasUsed)])

ConvertERC721TxToModel(tx) ==
    LET timestamp == ParseInt(tx.TimeStamp)
        gasPrice == SetString(tx.GasPrice)
        gasUsed == SetString(tx.GasUsed)
    IN  IF ~timestamp.ok THEN ConvError
        ELSE IF ~gasPrice.ok \/ ~gasUsed.ok THEN ConvPanic
        ELSE ConvOk([Hash |-> tx.Hash, Timestamp |-> Unix(timestamp),
                     From |-> tx.From, To |-> tx.To, Type |-> TypeERC721Transfer,
                     AssetContractAddr |-> tx.ContractAddress,
                     AssetSymbol |-> tx.TokenSymbol, TokenID |-> tx.TokenID,
                     Value |-> <<"1">>,
                     GasFee |-> GasFeeStr(gasPrice, gasUsed)])

\* the four categories, in the order main fetches and converts them
\* the token categories put before the ETH categories
CategoriesTokensFirst == <<"erc20", "erc721", "normal", "internal">>

Categories == <<"normal", "internal", "erc20", "erc721">>

ConvertByCategory(cat, tx) ==
    IF cat = "normal" THEN ConvertNormalTxToModel(tx)
    ELSE IF cat = "internal" THEN ConvertInternalTxToModel(tx)
    ELSE IF cat = "erc20" THEN ConvertERC20TxToModel(tx)
    ELSE ConvertERC721TxToModel(tx)

(***************************************************************************)
(* Raw records as the remote returns them (the fields the program reads)   *)
(***************************************************************************)
NormalTransaction(block, ts, hash, value, gasPrice, gasUsed) ==
    [BlockNumber |-> block, TimeStamp |-> ts, Hash |-> hash, From |-> "0xfrom",
     To |-> "0xto", Value |-> value, GasPrice |-> gasPrice, GasUsed |-> gasUsed]

InternalTransaction(block, ts, hash, value) ==
    [BlockNumber |-> block, TimeStamp |-> ts, Hash |-> hash, From |-> "0xfrom",
     To |-> "0xto", Value |-> value]

ERC20Transaction(block, ts, hash, value, decimals, gasPrice, gasUsed) ==
    [BlockNumber |-> block, TimeStamp |-> ts, Hash |-> hash, From |-> "0xfrom",
     To |-> "0xto", Value |-> value, ContractAddress |-> "0xtoken",
     TokenSymbol |-> "TKN", TokenDecimal |-> decimals,
     GasPrice |-> gasPrice, GasUsed |-> gasUsed]

ERC721Transaction(block, ts, hash, tokenID, gasPrice, gasUsed) ==
    [BlockNumber |-> block, TimeStamp |-> ts, Hash |-> hash, From |-> "0xfrom",
     To |-> "0xto", ContractAddress |-> "0xnft", TokenID |-> tokenID,
     TokenSymbol |-> "NFT", GasPrice |-> gasPrice, GasUsed |-> gasUsed]

Rep(c, n) == Tup([i \in 1..n |-> c], n)

\* field contents the converters are run on
TsGood == <<"1","6","2","0","0","0","0","0","0","0">>

TsInvalid == <<"i","n","v","a","l","i","d">>

TimeStampInputs ==
    {TsGood, <<"0">>, <<"-","1">>, TsInvalid, <<>>, <<"1",".","5">>,
     <<"1","6","2","0","x">>, <<"9","2","2","3","3","7","2","0","3","6","8","5","4","7","7","5","8","0","8">>}

OneEthWei == <<"1">> \o Rep("0", 18)

SixteenEthPlusOneWei == <<"1","6">> \o Rep("0", 17) \o <<"1">>

UnsignedWeiInputs ==
    {<<"0">>, <<"1">>, OneEthWei, <<"4","2">> \o Rep("0", 13),
     <<"1","5">> \o Rep("9", 18), SixteenEthPlusOneWei,
     <<"1","8","4","4","6","7","4","4","0","7","3","7","0","9","5","5","1","6","1","7">>,
     <<"0","0","7">>, Rep("7", 30)}

MalformedInputs == {<<>>, <<"a","b","c">>, <<"0","x","1","f">>, <<"1",".","5">>}

ValueInputs == UnsignedWeiInputs \cup MalformedInputs \cup {<<"-","5">>}

GasPriceGood == <<"2">> \o Rep("0", 10)

GasUsedGood == <<"2","1","0","0","0">>

GasInputs ==
    {<<GasPriceGood, GasUsedGood>>, <<<<>>, GasUsedGood>>,
     <<GasPriceGood, <<"g","a","s">>>>, <<<<"0">>, <<"0">>>>,
     <<SixteenEthPlusOneWei, <<"1">>>>}

TokenDecimalInputs ==
    {<<"1","8">>, <<"6">>, <<"0">>, <<>>, <<"x">>, <<"-","2">>, Rep("9", 10),
     <<"-">> \o Rep("9", 10), <<"-">> \o Rep("9", 20),
     <<"1","8","4","4","6","7","4","4","0","7","3","7","0","9","5","5","1","6","1","6","x">>}

TokenValueInputs ==
    {<<"0">>, <<"1","5","0","0","0","0","0">>, OneEthWei, SixteenEthPlusOneWei, <<>>,
     <<"a","b","c">>}

ConvInputs(cat) ==
    IF cat = "normal"
    THEN {NormalTransaction(0, ts, "0xhash", v, g[1], g[2]) :
              ts \in TimeStampInputs, v \in ValueInputs, g \in GasInputs}
    ELSE IF cat = "internal"
    THEN {InternalTransaction(0, ts, "0xhash", v) :
              ts \in TimeStampInputs, v \in ValueInputs}
    ELSE IF cat = "erc20"
    THEN {ERC20Transaction(0, ts, "0xhash", v, d, g[1], g[2]) :
              ts \in {TsGood, TsInvalid}, v \in TokenValueInputs,
              d \in TokenDecimalInputs, g \in GasInputs}
    ELSE {ERC721Transaction(0, ts, "0xhash", "42", g[1], g[2]) :
              ts \in TimeStampInputs, g \in GasInputs}

CategorySet == {Categories[i] : i \in 1..Len(Categories)}

\* how many conversions one run of the converters makes, at most
MaxConversions == 3

VARIABLES cvCat, cvTx, cvOut, cvDone, cvPc, cvLocals

convVars == <<cvCat, cvTx, cvOut, cvDone, cvPc, cvLocals>>

NotConverted == [status |-> "none", tx |-> ZeroTransaction]

\* the memory the locals of a converter lie in, before any call has written it
ZeroLocals ==
    [timestamp |-> [ok |-> FALSE, neg |-> FALSE, mag |-> <<>>], weiPerEth |-> 0,
     gasFeeStr |-> <<>>, valueStr |-> <<>>]

ConvInit ==
    /\ cvCat \in CategorySet
    /\ cvTx \in ConvInputs(cvCat)
    /\ cvOut = NotConverted
    /\ cvDone = <<>>
    /\ cvPc = "call"
    /\ cvLocals = ZeroLocals

\* no conversion under way (the other specifications)
ConvIdle ==
    /\ cvCat = "normal"
    /\ cvTx = NormalTransaction(0, <<>>, "", <<>>, <<>>, <<>>)
    /\ cvOut = NotConverted
    /\ cvDone = <<>>
    /\ cvPc = "call"
    /\ cvLocals = ZeroLocals

\* a call made and its result
Conversion(cat, tx, out) == [cat |-> cat, tx |-> tx, out |-> out]

\* one call of the category's converter
ConvertRecord ==
    /\ cvOut = NotConverted
    /\ \E out \in {ConvertByCategory(cvCat, cvTx)} :
          /\ cvOut' = out
          /\ cvDone' = Append(cvDone, Conversion(cvCat, cvTx, out))
    /\ UNCHANGED <<cvCat, cvTx, cvPc, cvLocals>>

\* a record the caller's loop meets between two calls on the same record
OtherRecord == InternalTransaction(0, TsGood, "0xother", OneEthWei)

\* the caller's loop goes on to its next record (a converter that returned,
\* with or without an error, lets it): the first record once more, or another
ConvertAgain ==
    /\ cvOut.status \in {"ok", "error"}
    /\ Len(cvDone) < MaxConversions
    /\ \/ cvCat' = cvDone[1].cat /\ cvTx' = cvDone[1].tx
       \/ cvCat' = "internal" /\ cvTx' = OtherRecord
    /\ cvOut' = NotConverted
    /\ UNCHANGED <<cvDone, cvPc, cvLocals>>

(***************************************************************************)
(* The converters statement by statement.  cvPc is the statement a call is *)
(* at and cvLocals the memory its locals lie in: each statement writes the *)
(* locals the code assigns there and reads the record or the locals the    *)
(* code reads there.  No call clears the memory: what a call finds in a    *)
(* local it has not assigned is what the call before left there.           *)
(***************************************************************************)
\* the records the statements are run on: those of ConvInputs with a well
\* formed or a malformed timestamp, a well formed or a malformed gas pair and,
\* for a token, three of the amounts and five of the decimals
StepGasInputs == {<<GasPriceGood, GasUsedGood>>, <<<<>>, GasUsedGood>>}

StepTokenValueInputs == {<<"1","5","0","0","0","0","0">>, SixteenEthPlusOneWei, <<>>}

StepTokenDecimalInputs == {<<"1","8">>, <<"6">>, <<"x">>, <<"-","2">>, Rep("9", 10)}

StepInputs(cat) ==
    {tx \in ConvInputs(cat) :
        /\ tx.TimeStamp \in {TsGood, TsInvalid}
        /\ cat = "internal" \/ <<tx.GasPrice, tx.GasUsed>> \in StepGasInputs
        /\ cat = "erc20" => /\ tx.Value \in StepTokenValueInputs
                             /\ tx.TokenDecimal \in StepTokenDecimalInputs}

StepInit ==
    /\ cvCat \in CategorySet
    /\ cvTx \in StepInputs(cvCat)
    /\ cvOut = NotConverted
    /\ cvDone = <<>>
    /\ cvPc = "timestamp"
    /\ cvLocals = ZeroLocals

\* the call ends with out (a return, or the death of the process) and the
\* caller's loop has its result
Returns(out) ==
    /\ cvOut' = out
    /\ cvDone' = Append(cvDone, Conversion(cvCat, cvTx, out))
    /\ cvPc' = "returned"
    /\ UNCHANGED <<cvCat, cvTx, cvLocals>>

\* the statements at cvPc have assigned their locals and the call is at pc
Assigns(locals, pc) ==
    /\ cvLocals' = locals
    /\ cvPc' = pc
    /\ UNCHANGED <<cvCat, cvTx, cvOut, cvDone>>

\* new(big.Float).Quo(new(big.Float).SetInt(v), weiPerEth).Text('f', 18), with
\* weiPerEth the power of ten 10^weiPerEth
QuoText(v, weiPerEth) == FloatText(FloatQuo(v, weiPerEth), WeiDecimals)

\* lines 725-728 (760-763, 784-787, 821-824): timestamp is parsed, and an
\* error returns the zero transaction
ParseTimestamp ==
    /\ cvPc = "timestamp"
    /\ \E timestamp \in {ParseInt(cvTx.TimeStamp)} :
          IF ~timestamp.ok THEN Returns(ConvError)
          ELSE Assigns([cvLocals EXCEPT !.timestamp = timestamp],
                       IF cvCat = "internal" THEN "value" ELSE "gasFee")

\* lines 731-740 (790-797, 827-834): gasPrice, gasUsed, gasFee, weiPerEth,
\* gasFeeEth and gasFeeStr; Mul dereferences a nil gasPrice or gasUsed
CalculateGasFee ==
    /\ cvPc = "gasFee"
    /\ \E gasPrice \in {SetString(cvTx.GasPrice)}, gasUsed \in {SetString(cvTx.GasUsed)},
          weiPerEth \in {WeiDecimals} :
          IF ~gasPrice.ok \/ ~gasUsed.ok THEN Returns(ConvPanic)
          ELSE Assigns([cvLocals EXCEPT
                           !.weiPerEth = weiPerEth,
                           !.gasFeeStr = QuoText(IntMul(gasPrice, gasUsed), weiPerEth)],
                       IF cvCat = "erc721" THEN "return" ELSE "value")

\* an internal converter that takes the divisor from the memory the other
\* converters leave it in, where the code computes its own at line 767
ConvertValueSharingDivisor ==
    /\ cvPc = "value"
    /\ IF cvCat = "erc20"
       THEN \E tokenDecimals \in {Atoi(cvTx.TokenDecimal)}, tokenValue \in {SetString(cvTx.Value)} :
               IF tokenDecimals.huge THEN Returns(ConvExhausted)
               ELSE IF ~tokenValue.ok THEN Returns(ConvPanic)
               ELSE Assigns([cvLocals EXCEPT
                                !.valueStr = TokenValueStr(tokenValue, tokenDecimals)],
                            "return")
       ELSE \E valueWei \in {SetString(cvTx.Value)}, weiPerEth \in {cvLocals.weiPerEth} :
               IF ~valueWei.ok THEN Returns(ConvPanic)
               ELSE Assigns([cvLocals EXCEPT
                                !.weiPerEth = weiPerEth,
                                !.valueStr = QuoText(valueWei, weiPerEth)],
                            "return")

\* lines 743-745: valueWei, valueEth and valueStr, with the weiPerEth of line
\* 736; lines 766-769: the same with a weiPerEth of its own; lines 800-804:
\* tokenDecimals, tokenValue, divisor, actualValue and valueStr.  SetInt
\* dereferences a nil valueWei or tokenValue, after Exp has taken its power
ConvertValue ==
    /\ cvPc = "value"
    /\ IF cvCat = "erc20"
       THEN \E tokenDecimals \in {Atoi(cvTx.TokenDecimal)}, tokenValue \in {SetString(cvTx.Value)} :
               IF tokenDecimals.huge THEN Returns(ConvExhausted)
               ELSE IF ~tokenValue.ok THEN Returns(ConvPanic)
               ELSE Assigns([cvLocals EXCEPT
                                !.valueStr = TokenValueStr(tokenValue, tokenDecimals)],
                            "return")
       ELSE \E valueWei \in {SetString(cvTx.Value)},
               weiPerEth \in {IF cvCat = "internal" THEN WeiDecimals ELSE cvLocals.weiPerEth} :
               IF ~valueWei.ok THEN Returns(ConvPanic)
               ELSE Assigns([cvLocals EXCEPT
                                !.weiPerEth = weiPerEth,
                                !.valueStr = QuoText(valueWei, weiPerEth)],
                            "return")

\* lines 747-755 (771-779, 806-816, 836-847): the transaction is built from
\* the record and the locals
ReturnTransaction ==
    /\ cvPc = "return"
    /\ Returns(ConvOk(
          [Hash |-> cvTx.Hash, Timestamp |-> Unix(cvLocals.timestamp),
           From |-> cvTx.From, To |-> cvTx.To,
           Type |-> IF cvCat = "normal" THEN TypeEthTransfer
                    ELSE IF cvCat = "internal" THEN TypeInternalTx
                    ELSE IF cvCat = "erc20" THEN TypeERC20Transfer
                    ELSE TypeERC721Transfer,
           AssetContractAddr |-> IF cvCat \in {"erc20", "erc721"} THEN cvTx.ContractAddress ELSE "",
           AssetSymbol |-> IF cvCat \in {"erc20", "erc721"} THEN cvTx.TokenSymbol ELSE "",
           TokenID |-> IF cvCat = "erc721" THEN cvTx.TokenID ELSE "",
           Value |-> IF cvCat = "erc721" THEN <<"1">> ELSE cvLocals.valueStr,
           GasFee |-> IF cvCat = "internal" THEN <<"0">> ELSE cvLocals.gasFeeStr]))

\* a record with a gas fee the caller's loops meet between two calls
OtherNormalRecord ==
    NormalTransaction(0, <<"0">>, "0xother", <<"4","2">>, SixteenEthPlusOneWei, <<"1">>)

\* the caller's loops go on to their next record (a converter that returned,
\* with or without an error, lets them): the first record once more, or a
\* record of another call, whose locals the next call finds in memory
NextRecord ==
    /\ cvPc = "returned"
    /\ cvOut.status \in {"ok", "error"}
    /\ Len(cvDone) < MaxConversions
    /\ \/ cvCat' = cvDone[1].cat /\ cvTx' = cvDone[1].tx
       \/ cvCat' = "internal" /\ cvTx' = OtherRecord
       \/ cvCat' = "normal" /\ cvTx' = OtherNormalRecord
    /\ cvOut' = NotConverted
    /\ cvPc' = "timestamp"
    /\ UNCHANGED <<cvDone, cvLocals>>

StepsNext ==
    \/ ParseTimestamp
    \/ CalculateGasFee
    \/ ConvertValue
    \/ ReturnTransaction
    \/ NextRecord

(***************************************************************************)
(* The retrying transport: makeRequest and requestWithRetry                *)
(***************************************************************************)
StatusOK == 200

StatusTooManyRequests == 429

ServerErrorFloor == 500

\* what one HTTPClient.Get can come back with
NoBody == [readable |-> TRUE, json |-> FALSE, status |-> "", message |-> "", result |-> "none"]

ConnError == [kind |-> "connerr", code |-> 0, body |-> NoBody]

HttpResponse(code, body) == [kind |-> "http", code |-> code, body |-> body]

\* an envelope {status, message, result}; result "list" decodes into the
\* caller's slice, result "text" (a message string in place of the list) does not
Envelope(status, message, result) ==
    [readable |-> TRUE, json |-> TRUE, status |-> status, message |-> message,
     result |-> result]

UnreadableBody == [readable |-> FALSE, json |-> FALSE, status |-> "", message |-> "", result |-> "none"]

Bodies ==
    {Envelope("1", "OK", "list"), Envelope("0", "NOTOK", "text"),
     Envelope("0", "No transactions found", "list"), Envelope("1", "OK", "text"),
     NoBody, UnreadableBody}

OtherStatusCodes == {204, 301, 400, 404, 429, 500, 503}

Responses ==
    {ConnError} \cup {HttpResponse(StatusOK, b) : b \in Bodies}
                \cup {HttpResponse(c, NoBody) : c \in OtherStatusCodes}

\* errors as the values their messages are built from
NoError == [kind |-> "nil", code |-> 0, retries |-> 0, message |-> ""]

TransportErr == [kind |-> "transport", code |-> 0, retries |-> 0, message |-> ""]

StatusAfterRetriesErr(code, n) ==
    [kind |-> "status-after-retries", code |-> code, retries |-> n, message |-> ""]

StatusErr(code) == [kind |-> "status", code |-> code, retries |-> 0, message |-> ""]

ReadErr == [kind |-> "read", code |-> 0, retries |-> 0, message |-> ""]

ExhaustedErr(n) == [kind |-> "exhausted", code |-> 0, retries |-> n, message |-> ""]

JsonErr == [kind |-> "json", code |-> 0, retries |-> 0, message |-> ""]

ApiErr(message) == [kind |-> "api", code |-> 0, retries |-> 0, message |-> message]

\* every status from 400 up taken for retryable
RetryableClientErrors(resp) == resp.kind = "http" /\ resp.code >= 400

\* line 671
Retryable(resp) ==
    resp.kind = "http" /\ (resp.code = StatusTooManyRequests \/ resp.code >= ServerErrorFloor)

MaxRetriesBound == 3

MaxRetryDelay == 2

NewClientMaxRetries == 3

NewClientRetryDelay == 1

\* how many calls of requestWithRetry one client serves in a row
MaxCalls == 2

VARIABLES rqMaxRetries, rqRetryDelay, rqPc, retries, delay, rqAttempts, rqSleeps,
          rqBody, rqErr, rqResult, rqCalls, rqSpent, coPc, coRetries, coDelay

retryVars == <<rqMaxRetries, rqRetryDelay, rqPc, retries, delay, rqAttempts, rqSleeps,
               rqBody, rqErr, rqResult, rqCalls, rqSpent, coPc, coRetries, coDelay>>

\* the calls the client has served, and whether one of those that returned
\* had used up its retry budget
callLog == <<rqCalls, rqSpent>>

\* the locals of a makeRequest call that another task runs on the same client
coVars == <<coPc, coRetries, coDelay>>

\* a client and one call of requestWithRetry that has entered makeRequest
\* (lines 652-653)
RetryStart(maxRetries, retryDelay) ==
    /\ rqMaxRetries = maxRetries
    /\ rqRetryDelay = retryDelay
    /\ rqPc = "makeRequest"
    /\ retries = 0
    /\ delay = retryDelay
    /\ rqAttempts = <<>>
    /\ rqSleeps = <<>>
    /\ rqBody = NoBody
    /\ rqErr = NoError
    /\ rqResult = "none"
    /\ rqCalls = 1
    /\ rqSpent = FALSE
    /\ coPc = "makeRequest"
    /\ coRetries = 0
    /\ coDelay = retryDelay

RetryInit ==
    \E m \in -1..MaxRetriesBound, d \in 0..MaxRetryDelay : RetryStart(m, d)

RetryIdle == RetryStart(NewClientMaxRetries, NewClientRetryDelay)

\* makeRequest returns (body, err) to requestWithRetry, which returns at once
\* on an error (lines 702-705)
MakeRequestReturns(body, err) ==
    /\ rqBody' = body
    /\ rqErr' = err
    /\ rqPc' = IF err = NoError THEN "decode" ELSE "returned"

\* giving up one failure early
GiveUpEarly(retriesNow, maxRetries) == retriesNow >= maxRetries

\* a backoff that does not grow
BackoffConstant(d) == d

\* lines 659 and 673, after retries++
GiveUp(retriesNow, maxRetries) == retriesNow > maxRetries

\* lines 665 and 680
Backoff(d) == d * 2

\* a loop that sleeps before it looks at the retry budget
RetryOrGiveUpAfterSleep(resp, err) ==
    /\ retries' = retries + 1
    /\ rqSleeps' = Append(rqSleeps, delay)
    /\ delay' = Backoff(delay)
    /\ IF GiveUp(retries + 1, rqMaxRetries)
       THEN MakeRequestReturns(NoBody, err)
       ELSE UNCHANGED <<rqPc, rqBody, rqErr>>

\* a loop that counts the failures of each kind against a budget of its own
RetryOrGiveUpPerKind(resp, err) ==
    /\ retries' = retries + 1
    /\ IF GiveUp(Cardinality({i \in 1..Len(rqAttempts) : rqAttempts[i].kind = resp.kind}) + 1,
                 rqMaxRetries)
       THEN /\ MakeRequestReturns(NoBody, err)
            /\ UNCHANGED <<delay, rqSleeps>>
       ELSE /\ rqSleeps' = Append(rqSleeps, delay)
            /\ delay' = Backoff(delay)
            /\ UNCHANGED <<rqPc, rqBody, rqErr>>

\* retries++ and then give up or back off (lines 658-666 and 672-681)
RetryOrGiveUp(resp, err) ==
    /\ retries' = retries + 1
    /\ IF GiveUp(retries + 1, rqMaxRetries)
       THEN /\ MakeRequestReturns(NoBody, err)
            /\ UNCHANGED <<delay, rqSleeps>>
       ELSE /\ rqSleeps' = Append(rqSleeps, delay)
            /\ delay' = Backoff(delay)
            /\ UNCHANGED <<rqPc, rqBody, rqErr>>

\* one iteration of the loop of makeRequest
makeRequestAttempt ==
    /\ rqPc = "makeRequest"
    /\ retries <= rqMaxRetries
    /\ \E resp \in Responses :
          /\ rqAttempts' = Append(rqAttempts, resp)
          /\ IF resp.kind = "connerr"
             THEN RetryOrGiveUp(resp, TransportErr)
             ELSE IF Retryable(resp)
             THEN RetryOrGiveUp(resp, StatusAfterRetriesErr(resp.code, retries))
             ELSE /\ UNCHANGED <<retries, delay, rqSleeps>>
                  /\ IF resp.code # StatusOK
                     THEN MakeRequestReturns(NoBody, StatusErr(resp.code))
                     ELSE IF ~resp.body.readable
                     THEN MakeRequestReturns(NoBody, ReadErr)
                     ELSE MakeRequestReturns(resp.body, NoError)
    /\ UNCHANGED <<rqMaxRetries, rqRetryDelay, rqResult, callLog, coVars>>

\* the loop condition fails: line 696
makeRequestExhausted ==
    /\ rqPc = "makeRequest"
    /\ retries > rqMaxRetries
    /\ MakeRequestReturns(NoBody, ExhaustedErr(rqMaxRetries))
    /\ UNCHANGED <<rqMaxRetries, rqRetryDelay, retries, delay, rqAttempts, rqSleeps, rqResult,
                   callLog, coVars>>

\* decoding that never looks at the status flag
DecodeEnvelopeIgnoringStatus(body) ==
    IF ~body.json THEN [err |-> JsonErr, result |-> "none"]
    ELSE IF body.result # "list" THEN [err |-> JsonErr, result |-> "none"]
    ELSE [err |-> NoError, result |-> "list"]

\* the rest of requestWithRetry once makeRequest has returned a body
\* (lines 707-720)
DecodeEnvelope(body) ==
    IF ~body.json THEN [err |-> JsonErr, result |-> "none"]
    ELSE IF body.status # "1" THEN [err |-> ApiErr(body.message), result |-> "none"]
    ELSE IF body.result # "list" THEN [err |-> JsonErr, result |-> "none"]
    ELSE [err |-> NoError, result |-> "list"]

requestWithRetryDecode ==
    /\ rqPc = "decode"
    /\ rqPc' = "returned"
    /\ rqErr' = DecodeEnvelope(rqBody).err
    /\ rqResult' = DecodeEnvelope(rqBody).result
    /\ UNCHANGED <<rqMaxRetries, rqRetryDelay, retries, delay, rqAttempts, rqSleeps, rqBody,
                   callLog, coVars>>

\* a retry count and a delay that live on from one call to the next
EnterKeepingState(r, d, retryDelay) == <<r, d>>

\* lines 652-653: the retry count and the delay a call starts with, where r
\* and d are what the call before it ended with
EnterMakeRequest(r, d, retryDelay) == <<0, retryDelay>>

\* the caller's next call of requestWithRetry on the same client (the next
\* page, or the next category's first page) enters makeRequest
makeRequestAgain ==
    /\ rqPc = "returned"
    /\ rqCalls < MaxCalls
    /\ rqCalls' = rqCalls + 1
    /\ rqSpent' = (rqSpent \/ retries > rqMaxRetries)
    /\ rqPc' = "makeRequest"
    /\ retries' = EnterMakeRequest(retries, delay, rqRetryDelay)[1]
    /\ delay' = EnterMakeRequest(retries, delay, rqRetryDelay)[2]
    /\ rqAttempts' = <<>>
    /\ rqSleeps' = <<>>
    /\ rqBody' = NoBody
    /\ rqErr' = NoError
    /\ rqResult' = "none"
    /\ UNCHANGED <<rqMaxRetries, rqRetryDelay, coVars>>

\* one iteration of the loop of makeRequest in a call that another category
\* task makes on the same client at the same time: it fails in a retryable
\* way or it ends the call
makeRequestInOtherTask ==
    /\ coPc = "makeRequest"
    /\ IF coRetries > rqMaxRetries
       THEN coPc' = "returned" /\ UNCHANGED <<coRetries, coDelay>>
       ELSE \/ /\ coRetries' = coRetries + 1
               /\ IF GiveUp(coRetries + 1, rqMaxRetries)
                  THEN coPc' = "returned" /\ UNCHANGED coDelay
                  ELSE coDelay' = Backoff(coDelay) /\ UNCHANGED coPc
            \/ /\ coPc' = "returned"
               /\ UNCHANGED <<coRetries, coDelay>>
    /\ UNCHANGED <<rqMaxRetries, rqRetryDelay, rqPc, retries, delay, rqAttempts, rqSleeps,
                   rqBody, rqErr, rqResult, callLog>>

RetryNext == makeRequestAttempt \/ makeRequestExhausted \/ requestWithRetryDecode

\* the calls one client serves: one after the other for its caller, and at
\* the same time for another task
CallsNext == RetryNext \/ makeRequestAgain \/ makeRequestInOtherTask

(***************************************************************************)
(* The category fetcher: GetAll<Category> over the pages of one listing    *)
(***************************************************************************)
DefaultOffset == 1000

PageDelayMs == 200

ActionOf(cat) ==
    IF cat = "normal" THEN "txlist"
    ELSE IF cat = "internal" THEN "txlistinternal"
    ELSE IF cat = "erc20" THEN "tokentx"
    ELSE "tokennfttx"

\* strconv.FormatInt(n, 10) and strconv.Itoa(n): the decimal digits, most
\* significant first, after a minus sign for a negative number
RECURSIVE NatDigits(_)
NatDigits(n) ==
    IF n < 10 THEN <<DigitStr[n + 1]>>
    ELSE NatDigits(n \div 10) \o <<DigitStr[(n % 10) + 1]>>

FormatInt(n) == IF n < 0 THEN <<"-">> \o NatDigits(0 - n) ELSE NatDigits(n)

Itoa(n) == FormatInt(n)

\* a request that sends the two ends of the block range swapped
PageRequestSwapped(cat, address, from, to, page, offset, apiKey) ==
    [module |-> "account", action |-> ActionOf(cat), address |-> address,
     startblock |-> FormatInt(to), endblock |-> FormatInt(from),
     page |-> Itoa(page), offset |-> Itoa(offset), sort |-> "asc", apikey |-> apiKey]

\* the request parameters of Get<Category>Paginated: lines 418-427
PageRequest(cat, address, from, to, page, offset, apiKey) ==
    [module |-> "account", action |-> ActionOf(cat), address |-> address,
     startblock |-> FormatInt(from), endblock |-> FormatInt(to),
     page |-> Itoa(page), offset |-> Itoa(offset), sort |-> "asc", apikey |-> apiKey]

\* the remote's listing of n records, numbered 1..n in ascending order, cut
\* into pages of the requested size
RemotePage(n, page, offset) ==
    LET first == (page - 1) * offset + 1
        last == Min(page * offset, n)
    IN  IF last < first THEN <<>>
        ELSE Tup([i \in 1..(last - first + 1) |-> first + i - 1], last - first + 1)

MaxFullPages == 2

FinalSizes == {0, 1, 2, DefaultOffset - 1}

DefaultStartBlock == 0

DefaultEndBlock == 999999999

\* arguments GetAll<Category> is called with
FetchAddresses == {"0xa39b", "0xdead"}

FetchStartBlocks == {0 - 1, DefaultStartBlock, 18000000}

FetchEndBlocks == {DefaultStartBlock, DefaultEndBlock}

VARIABLES ftCat, ftTotal, ftPc, page, allTransactions, ftRequests, ftSleeps, ftErr,
          ftApiKey, ftAddress, ftStartBlock, ftEndBlock

fetchVars == <<ftCat, ftTotal, ftPc, page, allTransactions, ftRequests, ftSleeps, ftErr,
               ftApiKey, ftAddress, ftStartBlock, ftEndBlock>>

fetchArgs == <<ftCat, ftTotal, ftApiKey, ftAddress, ftStartBlock, ftEndBlock>>

\* the client's key and the arguments of the call
FetchArgs(apiKey, address, from, to) ==
    /\ ftApiKey = apiKey
    /\ ftAddress = address
    /\ ftStartBlock = from
    /\ ftEndBlock = to

\* GetAll<Category> entered: lines 443-445
FetchStart(cat, total) ==
    /\ ftCat = cat
    /\ ftTotal = total
    /\ ftPc = "loop"
    /\ page = 1
    /\ allTransactions = <<>>
    /\ ftRequests = <<>>
    /\ ftSleeps = <<>>
    /\ ftErr = NoError

FetchInit ==
    \E cat \in CategorySet, k \in 0..MaxFullPages, f \in FinalSizes,
       address \in FetchAddresses, from \in FetchStartBlocks, to \in FetchEndBlocks :
        /\ FetchStart(cat, k * DefaultOffset + f)
        /\ FetchArgs("KEY", address, from, to)

FetchIdle == FetchStart("normal", 0) /\ FetchArgs("", "", 0, 0)

\* stopping only at an empty page
LastPageWhenEmpty(transactions, batchSize) == Len(transactions) = 0

\* line 457
LastPage(transactions, batchSize) == Len(transactions) < batchSize

\* a loop that sleeps after every page, the last one included
GetAllPageAlwaysSleeping ==
    /\ ftPc = "loop"
    /\ ftRequests' = Append(ftRequests, PageRequest(ftCat, ftAddress, ftStartBlock, ftEndBlock,
                                                    page, DefaultOffset, ftApiKey))
    /\ LET transactions == RemotePage(ftTotal, page, DefaultOffset)
       IN  /\ allTransactions' = allTransactions \o transactions
           /\ ftSleeps' = Append(ftSleeps, PageDelayMs)
           /\ IF LastPage(transactions, DefaultOffset)
              THEN ftPc' = "returned" /\ UNCHANGED page
              ELSE page' = page + 1 /\ UNCHANGED ftPc
    /\ UNCHANGED <<fetchArgs, ftErr>>

\* one iteration of the loop: the page comes back and is appended, and the
\* loop either ends (a short page) or moves on after the delay
GetAllPage ==
    /\ ftPc = "loop"
    /\ ftRequests' = Append(ftRequests, PageRequest(ftCat, ftAddress, ftStartBlock, ftEndBlock,
                                                    page, DefaultOffset, ftApiKey))
    /\ LET transactions == RemotePage(ftTotal, page, DefaultOffset)
       IN  /\ allTransactions' = allTransactions \o transactions
           /\ IF LastPage(transactions, DefaultOffset)
              THEN /\ ftPc' = "returned"
                   /\ UNCHANGED <<page, ftSleeps>>
              ELSE /\ page' = page + 1
                   /\ ftSleeps' = Append(ftSleeps, PageDelayMs)
                   /\ UNCHANGED ftPc
    /\ UNCHANGED <<fetchArgs, ftErr>>

\* a failed page that hands back the pages fetched so far
ReturnOnErrorPartial(fetched) == fetched

\* line 451, return nil, err: the list returned with an error
ReturnOnError(fetched) == <<>>

\* the page request fails: the fetcher returns nil and the error
GetAllPageFails ==
    /\ ftPc = "loop"
    /\ ftRequests' = Append(ftRequests, PageRequest(ftCat, ftAddress, ftStartBlock, ftEndBlock,
                                                    page, DefaultOffset, ftApiKey))
    /\ \E err \in {TransportErr, StatusErr(404), ApiErr("NOTOK"), JsonErr} : ftErr' = err
    /\ allTransactions' = ReturnOnError(allTransactions)
    /\ ftPc' = "returned"
    /\ UNCHANGED <<fetchArgs, page, ftSleeps>>

FetchNext == GetAllPage \/ GetAllPageFails

(***************************************************************************)
(* The remote's data for the orchestrator: per category, the records in    *)
(* ascending block order                                                   *)
(***************************************************************************)
TokenAmount == <<"1","5","0","0","0","0","0">>

DataPlain ==
    [normal |-> <<NormalTransaction(1, TsGood, "0xn1", OneEthWei, GasPriceGood, GasUsedGood),
                  NormalTransaction(2, TsGood, "0xn2", SixteenEthPlusOneWei, GasPriceGood, GasUsedGood)>>,
     internal |-> <<InternalTransaction(2, TsGood, "0xi1", <<"5">>)>>,
     erc20 |-> <<ERC20Transaction(1, TsGood, "0xe1", TokenAmount, <<"6">>, GasPriceGood, GasUsedGood),
                 ERC20Transaction(3, TsGood, "0xe2", OneEthWei, <<"1","8">>, GasPriceGood, GasUsedGood)>>,
     erc721 |-> <<ERC721Transaction(2, TsGood, "0xf1", "42", GasPriceGood, GasUsedGood)>>]

DataBadTimestamps ==
    [normal |-> <<NormalTransaction(0, TsInvalid, "0xn3", OneEthWei, GasPriceGood, GasUsedGood),
                  NormalTransaction(2, TsGood, "0xn4", <<"7">>, GasPriceGood, GasUsedGood)>>,
     internal |-> <<InternalTransaction(1, TsGood, "0xi2", OneEthWei),
                    InternalTransaction(2, <<>>, "0xi3", <<"5">>)>>,
     erc20 |-> <<ERC20Transaction(2, TsInvalid, "0xe3", TokenAmount, <<"6">>, <<>>, GasUsedGood),
                 ERC20Transaction(3, TsGood, "0xe4", TokenAmount, <<"0">>, GasPriceGood, GasUsedGood)>>,
     erc721 |-> <<ERC721Transaction(1, <<"1",".","5">>, "0xf2", "7", GasPriceGood, GasUsedGood),
                  ERC721Transaction(2, TsGood, "0xf3", "8", GasPriceGood, GasUsedGood)>>]

DataMalformed ==
    [normal |-> <<NormalTransaction(1, TsGood, "0xn5", <<"7">>, GasPriceGood, GasUsedGood)>>,
     internal |-> <<>>,
     erc20 |-> <<ERC20Transaction(2, TsGood, "0xe5", TokenAmount, <<"6">>, <<>>, GasUsedGood)>>,
     erc721 |-> <<>>]

RemoteDataSets == {DataPlain, DataBadTimestamps, DataMalformed}

\* the records of a category within the block window of a request, both
\* ends included
RemoteWindow(data, cat, from, to) ==
    SelectSeq(data[cat], LAMBDA r : from <= r.BlockNumber /\ r.BlockNumber <= to)

\* the conversions of the remote's records, computed once
CatKeys(data, cat) == Tup([i \in 1..Len(data[cat]) |-> <<cat, data[cat][i]>>], Len(data[cat]))

DataKeys(data) ==
    CatKeys(data, "normal") \o CatKeys(data, "internal") \o CatKeys(data, "erc20")
        \o CatKeys(data, "erc721")

MemoKeys == DataKeys(DataPlain) \o DataKeys(DataBadTimestamps) \o DataKeys(DataMalformed)

MemoTable ==
    Tup([i \in 1..Len(MemoKeys) |-> ConvertByCategory(MemoKeys[i][1], MemoKeys[i][2])],
        Len(MemoKeys))

\* the category's converter applied to one record
Convert(cat, tx) ==
    LET hits == {i \in 1..Len(MemoKeys) : MemoKeys[i][1] = cat /\ MemoKeys[i][2] = tx}
    IN  IF hits = {} THEN ConvertByCategory(cat, tx)
        ELSE MemoTable[CHOOSE i \in hits : TRUE]

\* the loop over one category's records: a conversion error skips the record,
\* an abort inside a converter ends the loop and the run
LoopBody(acc, hash, r) ==
    IF r.status = "ok" THEN [acc EXCEPT !.out = Append(@, r.tx)]
    ELSE IF r.status = "error" THEN [acc EXCEPT !.skipped = Append(@, hash)]
    ELSE [acc EXCEPT !.abort = r.status]

RECURSIVE ConvertLoop(_, _, _, _)
ConvertLoop(cat, txs, i, acc) ==
    IF i > Len(txs) \/ acc.abort # "" THEN acc
    ELSE ConvertLoop(cat, txs, i + 1, LoopBody(acc, txs[i].Hash, Convert(cat, txs[i])))

ConvertAll(cat, txs) == ConvertLoop(cat, txs, 1, [out |-> <<>>, skipped |-> <<>>, abort |-> ""])

\* the converter calls the loop made
ConvertCalls(res) == Len(res.out) + Len(res.skipped) + (IF res.abort = "" THEN 0 ELSE 1)

(***************************************************************************)
(* The orchestrator: main (whole-range mode) and processInBatches          *)
(***************************************************************************)
MaxBlock == 3

MaxStart == 1

MaxBatch == 2

\* how many operations of the environment (a category fetch of batch mode,
\* MkdirAll, a CSV write) fail in one run, at most; the fetches of the four
\* tasks of whole-range mode may all fail
MaxFailures == 2

TaskCount == 4

ResultChCap == 1

\* an error channel with room for one error only
ErrorChCapOfOne == ResultChCap

ErrorChCap == 4

VARIABLES startBlock, endBlock, batchBlocks, remote,
          mainPc, exitCode, reported, catIdx,
          wg, gPc, gTxs, gErr, resultCh, errorCh,
          allTxs, batchTxs, currentStart, currentEnd,
          fetchLog, writes, warnings, nConv, failures

mainVars == <<startBlock, endBlock, batchBlocks, remote,
              mainPc, exitCode, reported, catIdx,
              wg, gPc, gTxs, gErr, resultCh, errorCh,
              allTxs, batchTxs, currentStart, currentEnd,
              fetchLog, writes, warnings, nConv, failures>>

flagVars == <<startBlock, endBlock, batchBlocks, remote>>

taskVars == <<wg, gPc, gTxs, gErr, resultCh, errorCh>>

batchVars == <<batchTxs, currentStart, currentEnd>>

\* main has parsed its flags and built the client (lines 24-47)
MainStart(data, start, end, batch) ==
    /\ remote = data
    /\ startBlock = start
    /\ endBlock = end
    /\ batchBlocks = batch
    /\ mainPc = "start"
    /\ exitCode = "running"
    /\ reported = NoError
    /\ catIdx = 1
    /\ wg = 0
    /\ gPc = [c \in CategorySet |-> "unborn"]
    /\ gTxs = [c \in CategorySet |-> <<>>]
    /\ gErr = [c \in CategorySet |-> NoError]
    /\ resultCh = [c \in CategorySet |-> <<>>]
    /\ errorCh = <<>>
    /\ allTxs = <<>>
    /\ batchTxs = <<>>
    /\ currentStart = start
    /\ currentEnd = start
    /\ fetchLog = {}
    /\ writes = <<>>
    /\ warnings = <<>>
    /\ nConv = 0
    /\ failures = 0

MainInit ==
    \E data \in RemoteDataSets, start \in 0..MaxStart, end \in 0..MaxBlock,
       batch \in 0..MaxBatch : MainStart(data, start, end, batch)

MainIdle == MainStart(DataPlain, 0, 0, 0)

FetchFailure == ApiErr("NOTOK")

\* fmt.Errorf("error fetching ... transactions: %w", err)
WrapFetchErr(cat, err) == [kind |-> "fetch", cat |-> cat, cause |-> err]

FetchEntry(cat, from, to, ok, txs) ==
    [cat |-> cat, from |-> from, to |-> to, ok |-> ok, txs |-> txs]

Fatal(err) ==
    /\ mainPc' = "exit"
    /\ exitCode' = "fatal"
    /\ reported' = err

Abort(how) ==
    /\ mainPc' = "exit"
    /\ exitCode' = how
    /\ UNCHANGED reported

\* line 50: batch > 0 hands the run to processInBatches; otherwise lines
\* 55-115 create the channels and start the four tasks
MainDispatch ==
    /\ mainPc = "start"
    /\ IF batchBlocks > 0
       THEN /\ mainPc' = "loop"
            /\ currentStart' = startBlock
            /\ UNCHANGED <<wg, gPc, currentEnd>>
       ELSE /\ mainPc' = "wait"
            /\ wg' = TaskCount
            /\ gPc' = [c \in CategorySet |-> "fetch"]
            /\ UNCHANGED <<currentStart, currentEnd>>
    /\ UNCHANGED <<flagVars, exitCode, reported, catIdx, gTxs, gErr, resultCh, errorCh,
                   allTxs, batchTxs, fetchLog, writes, warnings, nConv, failures>>

\* a task's call of GetAll<Category> returns the records
TaskFetch(cat) ==
    /\ gPc[cat] = "fetch"
    /\ LET txs == RemoteWindow(remote, cat, startBlock, endBlock)
       IN  /\ gTxs' = [gTxs EXCEPT ![cat] = txs]
           /\ fetchLog' = fetchLog \cup {FetchEntry(cat, startBlock, endBlock, TRUE, txs)}
    /\ gPc' = [gPc EXCEPT ![cat] = "deliver"]
    /\ UNCHANGED <<flagVars, mainPc, exitCode, reported, catIdx, wg, gErr, resultCh, errorCh,
                   allTxs, batchVars, writes, warnings, nConv, failures>>

\* a task's call of GetAll<Category> returns an error: any of the four may
TaskFetchFails(cat) ==
    /\ gPc[cat] = "fetch"
    /\ failures' = failures + 1
    /\ gErr' = [gErr EXCEPT ![cat] = FetchFailure]
    /\ fetchLog' = fetchLog \cup {FetchEntry(cat, startBlock, endBlock, FALSE, <<>>)}
    /\ gPc' = [gPc EXCEPT ![cat] = "report"]
    /\ UNCHANGED <<flagVars, mainPc, exitCode, reported, catIdx, wg, gTxs, resultCh, errorCh,
                   allTxs, batchVars, writes, warnings, nConv>>

\* a send that gives the error up when the channel already holds one
TaskReportKeepingOne(cat) ==
    /\ gPc[cat] = "report"
    /\ errorCh' = IF errorCh = <<>> THEN <<WrapFetchErr(cat, gErr[cat])>> ELSE errorCh
    /\ gPc' = [gPc EXCEPT ![cat] = "deliver"]
    /\ UNCHANGED <<flagVars, mainPc, exitCode, reported, catIdx, wg, gTxs, gErr, resultCh,
                   allTxs, batchVars, fetchLog, writes, warnings, nConv, failures>>

\* errorCh <- fmt.Errorf(...)
TaskReport(cat) ==
    /\ gPc[cat] = "report"
    /\ Len(errorCh) < ErrorChCap
    /\ errorCh' = Append(errorCh, WrapFetchErr(cat, gErr[cat]))
    /\ gPc' = [gPc EXCEPT ![cat] = "deliver"]
    /\ UNCHANGED <<flagVars, mainPc, exitCode, reported, catIdx, wg, gTxs, gErr, resultCh,
                   allTxs, batchVars, fetchLog, writes, warnings, nConv, failures>>

\* a task that sends its list on success and nothing after an error
TaskDeliverOnSuccessOnly(cat) ==
    /\ gPc[cat] = "deliver"
    /\ Len(resultCh[cat]) < ResultChCap
    /\ resultCh' = [resultCh EXCEPT ![cat] =
                       IF gErr[cat] = NoError THEN Append(@, gTxs[cat]) ELSE @]
    /\ gPc' = [gPc EXCEPT ![cat] = "return"]
    /\ UNCHANGED <<flagVars, mainPc, exitCode, reported, catIdx, wg, gTxs, gErr, errorCh,
                   allTxs, batchVars, fetchLog, writes, warnings, nConv, failures>>

\* ch <- txs, or ch <- nil after an error
TaskDeliver(cat) ==
    /\ gPc[cat] = "deliver"
    /\ Len(resultCh[cat]) < ResultChCap
    /\ resultCh' = [resultCh EXCEPT ![cat] =
                       Append(@, IF gErr[cat] = NoError THEN gTxs[cat] ELSE <<>>)]
    /\ gPc' = [gPc EXCEPT ![cat] = "return"]
    /\ UNCHANGED <<flagVars, mainPc, exitCode, reported, catIdx, wg, gTxs, gErr, errorCh,
                   allTxs, batchVars, fetchLog, writes, warnings, nConv, failures>>

\* the task returns: the deferred wg.Done()
TaskDone(cat) ==
    /\ gPc[cat] = "return"
    /\ wg' = wg - 1
    /\ gPc' = [gPc EXCEPT ![cat] = "done"]
    /\ UNCHANGED <<flagVars, mainPc, exitCode, reported, catIdx, gTxs, gErr, resultCh, errorCh,
                   allTxs, batchVars, fetchLog, writes, warnings, nConv, failures>>

\* a wait that gives up as soon as a task has reported an error
MainWaitAnyFailure ==
    /\ mainPc = "wait"
    /\ wg = 0 \/ errorCh # <<>>
    /\ mainPc' = "select"
    /\ UNCHANGED <<flagVars, exitCode, reported, catIdx, taskVars,
                   allTxs, batchVars, fetchLog, writes, warnings, nConv, failures>>

\* wg.Wait() returns
MainWait ==
    /\ mainPc = "wait"
    /\ wg = 0
    /\ mainPc' = "select"
    /\ UNCHANGED <<flagVars, exitCode, reported, catIdx, taskVars,
                   allTxs, batchVars, fetchLog, writes, warnings, nConv, failures>>

\* a select that never looks at errorCh
MainSelectIgnoringErrors ==
    /\ mainPc = "select"
    /\ mainPc' = "convert"
    /\ catIdx' = 1
    /\ UNCHANGED <<flagVars, exitCode, reported, taskVars,
                   allTxs, batchVars, fetchLog, writes, warnings, nConv, failures>>

\* a select that takes the error recorded last
MainSelectLastError ==
    /\ mainPc = "select"
    /\ IF errorCh # <<>>
       THEN /\ Fatal(errorCh[Len(errorCh)])
            /\ errorCh' = SubSeq(errorCh, 1, Len(errorCh) - 1)
            /\ UNCHANGED catIdx
       ELSE /\ mainPc' = "convert"
            /\ catIdx' = 1
            /\ UNCHANGED <<exitCode, reported, errorCh>>
    /\ UNCHANGED <<flagVars, wg, gPc, gTxs, gErr, resultCh,
                   allTxs, batchVars, fetchLog, writes, warnings, nConv, failures>>

\* the select of lines 121-126
MainSelect ==
    /\ mainPc = "select"
    /\ IF errorCh # <<>>
       THEN /\ Fatal(Head(errorCh))
            /\ errorCh' = Tail(errorCh)
            /\ UNCHANGED catIdx
       ELSE /\ mainPc' = "convert"
            /\ catIdx' = 1
            /\ UNCHANGED <<exitCode, reported, errorCh>>
    /\ UNCHANGED <<flagVars, wg, gPc, gTxs, gErr, resultCh,
                   allTxs, batchVars, fetchLog, writes, warnings, nConv, failures>>

ConvertWarning(cat, hash) == [kind |-> "convert", cat |-> cat, hash |-> hash]

FetchWarning(cat, from, to) == [kind |-> "fetch", cat |-> cat, from |-> from, to |-> to]

WriteWarning(from, to) == [kind |-> "write", from |-> from, to |-> to]

ConvertWarnings(cat, skipped) ==
    Tup([i \in 1..Len(skipped) |-> ConvertWarning(cat, skipped[i])], Len(skipped))

\* the four conversion loops of lines 132-173, one category at a time: the
\* category's list is received and every record converted, a failed
\* conversion being logged and skipped
MainConvert ==
    /\ mainPc = "convert"
    /\ resultCh[Categories[catIdx]] # <<>>
    /\ \E cat \in {Categories[catIdx]} : \E res \in {ConvertAll(cat, Head(resultCh[cat]))} :
           /\ resultCh' = [resultCh EXCEPT ![cat] = Tail(@)]
           /\ nConv' = nConv + ConvertCalls(res)
           /\ allTxs' = allTxs \o res.out
           /\ warnings' = warnings \o ConvertWarnings(cat, res.skipped)
           /\ IF res.abort # ""
              THEN Abort(res.abort) /\ UNCHANGED catIdx
              ELSE /\ UNCHANGED <<exitCode, reported>>
                   /\ IF catIdx < Len(Categories)
                      THEN catIdx' = catIdx + 1 /\ UNCHANGED mainPc
                      ELSE mainPc' = "mkdir" /\ UNCHANGED catIdx
    /\ UNCHANGED <<flagVars, wg, gPc, gTxs, gErr, errorCh, batchVars, fetchLog, writes, failures>>

MkdirErr == [kind |-> "mkdir", code |-> 0, retries |-> 0, message |-> ""]

WriteErr == [kind |-> "write", code |-> 0, retries |-> 0, message |-> ""]

\* os.MkdirAll of lines 181-183
MainMkdir ==
    /\ mainPc = "mkdir"
    /\ \/ /\ mainPc' = "export"
          /\ UNCHANGED <<exitCode, reported, failures>>
       \/ /\ failures < MaxFailures
          /\ failures' = failures + 1
          /\ Fatal(MkdirErr)
    /\ UNCHANGED <<flagVars, catIdx, taskVars, allTxs, batchVars, fetchLog, writes, warnings, nConv>>

\* models.CSVHeaders()
CSVHeaders ==
    <<"Transaction Hash", "Date & Time", "From Address", "To Address",
      "Transaction Type", "Asset Contract Address", "Asset Symbol / Name",
      "Token ID", "Value / Amount", "Gas Fee (ETH)">>

\* t.Timestamp.Format(time.RFC3339): the text of an instant, kept as the
\* instant it denotes
FormatRFC3339(ts) == [rfc3339 |-> ts]

\* (*Transaction).CSVRecord()
CSVRecord(t) ==
    <<t.Hash, FormatRFC3339(t.Timestamp), t.From, t.To, t.Type, t.AssetContractAddr,
      t.AssetSymbol, t.TokenID, t.Value, t.GasFee>>

CsvCreateErr == [kind |-> "csv", code |-> 0, retries |-> 0, message |-> "failed to create"]

\* "failed to write CSV header: ..."
CsvHeaderErr == [kind |-> "csv", code |-> 0, retries |-> 0, message |-> "failed to write CSV header"]

\* "failed to write transaction record: ..."
CsvRecordErr ==
    [kind |-> "csv", code |-> 0, retries |-> 0, message |-> "failed to write transaction record"]

\* what the calls of ExportTransactionsToCSV into the file system and the csv
\* writer return: whether MkdirAll and os.Create succeed (creatable), the
\* first call of writer.Write that returns an error (writeErrAt: 1 for the
\* header, k + 1 for the k-th transaction, 0 when none does), whether the
\* deferred writer.Flush gets what is left into the file (flushOk), and the
\* whole rows that have reached the file when a Write or the Flush fails
\* (landed).  With everything in order:
DiskOk == [creatable |-> TRUE, writeErrAt |-> 0, flushOk |-> TRUE, landed |-> 0]

\* the directory or the file cannot be created
DiskNoCreate == [creatable |-> FALSE, writeErrAt |-> 0, flushOk |-> TRUE, landed |-> 0]

\* the file is created, every Write only fills the writer's buffer and
\* returns nil, and the deferred Flush fails with nothing in the file
DiskFlushFails == [creatable |-> TRUE, writeErrAt |-> 0, flushOk |-> FALSE, landed |-> 0]

\* the file system outcomes the runs of the model meet
DiskStates == {DiskOk, DiskNoCreate, DiskFlushFails}

\* utils.ExportTransactionsToCSV(transactions, filePath): the error it
\* returns and the whole rows of the file it leaves.  An error of MkdirAll,
\* os.Create or a Write is returned; the error of the deferred Flush is
\* dropped, so the call returns nil although rows are missing from the file.
ExportTransactionsToCSV(transactions, disk) ==
    LET rows == <<CSVHeaders>>
                \o Tup([i \in 1..Len(transactions) |-> CSVRecord(transactions[i])],
                       Len(transactions))
    IN  IF ~disk.creatable THEN [err |-> CsvCreateErr, rows |-> <<>>]
        ELSE IF disk.writeErrAt \in 1..Len(rows)
        THEN [err |-> IF disk.writeErrAt = 1 THEN CsvHeaderErr ELSE CsvRecordErr,
              rows |-> SubSeq(rows, 1, Min(disk.landed, disk.writeErrAt - 1))]
        ELSE IF disk.flushOk THEN [err |-> NoError, rows |-> rows]
        ELSE [err |-> NoError, rows |-> SubSeq(rows, 1, Min(disk.landed, Len(rows) - 1))]

\* one call of utils.ExportTransactionsToCSV as the caller sees it
WriteCall(file, from, to, txs, disk) ==
    [file |-> file, from |-> from, to |-> to, txs |-> txs, disk |-> disk,
     result |-> ExportTransactionsToCSV(txs, disk)]

\* a call for a place other than DiskOk is one of the failures of the run
DiskChosen(disk) ==
    IF disk = DiskOk THEN UNCHANGED failures
    ELSE failures < MaxFailures /\ failures' = failures + 1

\* lines 186-191
MainExport ==
    /\ mainPc = "export"
    /\ \E disk \in DiskStates :
          /\ DiskChosen(disk)
          /\ \E w \in {WriteCall("tx_history", startBlock, endBlock, allTxs, disk)} :
                /\ writes' = Append(writes, w)
                /\ IF w.result.err = NoError
                   THEN mainPc' = "exit" /\ exitCode' = "ok" /\ UNCHANGED reported
                   ELSE Fatal(WriteErr)
    /\ UNCHANGED <<flagVars, catIdx, taskVars, allTxs, batchVars, fetchLog, warnings, nConv>>

\* a chunk that always spans batchSize blocks
ChunkEndUnclipped(from, batchSize, to) == from + batchSize

\* lines 202-205: the chunk's end, clipped to endBlock
ChunkEnd(from, batchSize, to) ==
    IF from + batchSize > to THEN to ELSE from + batchSize

\* a loop that also runs for a chunk starting at endBlock
BatchLoopInclusive ==
    /\ mainPc = "loop"
    /\ IF currentStart <= endBlock
       THEN /\ currentEnd' = ChunkEnd(currentStart, batchBlocks, endBlock)
            /\ batchTxs' = <<>>
            /\ catIdx' = 1
            /\ mainPc' = "category"
       ELSE /\ mainPc' = "final"
            /\ UNCHANGED <<currentEnd, batchTxs, catIdx>>
    /\ UNCHANGED <<flagVars, exitCode, reported, taskVars, allTxs, currentStart,
                   fetchLog, writes, warnings, nConv, failures>>

\* the head of the loop of processInBatches: lines 201-211
BatchLoop ==
    /\ mainPc = "loop"
    /\ IF currentStart < endBlock
       THEN /\ currentEnd' = ChunkEnd(currentStart, batchBlocks, endBlock)
            /\ batchTxs' = <<>>
            /\ catIdx' = 1
            /\ mainPc' = "category"
       ELSE /\ mainPc' = "final"
            /\ UNCHANGED <<currentEnd, batchTxs, catIdx>>
    /\ UNCHANGED <<flagVars, exitCode, reported, taskVars, allTxs, currentStart,
                   fetchLog, writes, warnings, nConv, failures>>

\* a failed fetch that throws the chunk's records away
BatchCollectWiping(txsSoFar, ok, out) == IF ok THEN txsSoFar \o out ELSE <<>>

\* a step that puts a category's records in front of the chunk's records
BatchCollectInFront(txsSoFar, ok, out) == IF ok THEN out \o txsSoFar ELSE txsSoFar

\* what a category's step adds to the chunk's records: nothing after a failed
\* fetch, else the records that convert
BatchCollect(txsSoFar, ok, out) == IF ok THEN txsSoFar \o out ELSE txsSoFar

NextCategory ==
    IF catIdx < Len(Categories)
    THEN catIdx' = catIdx + 1 /\ UNCHANGED mainPc
    ELSE mainPc' = "append" /\ UNCHANGED catIdx

\* a step that also starts the next category's fetch before this one is done
BatchCategoryPrefetching ==
    /\ mainPc = "category"
    /\ \E cat \in {Categories[catIdx]} :
       \E txs \in {RemoteWindow(remote, cat, currentStart, currentEnd)} :
       \E res \in {ConvertAll(cat, txs)} :
           /\ fetchLog' = fetchLog
                  \cup {FetchEntry(cat, currentStart, currentEnd, TRUE, txs)}
                  \cup {FetchEntry(Categories[catIdx + 1], currentStart, currentEnd, TRUE,
                                   RemoteWindow(remote, Categories[catIdx + 1],
                                                currentStart, currentEnd)) :
                           x \in {y \in {catIdx} : y < Len(Categories)}}
           /\ nConv' = nConv + ConvertCalls(res)
           /\ batchTxs' = BatchCollect(batchTxs, TRUE, res.out)
           /\ IF res.abort # ""
              THEN Abort(res.abort) /\ UNCHANGED catIdx
              ELSE NextCategory /\ UNCHANGED <<exitCode, reported>>
    /\ UNCHANGED <<flagVars, taskVars, allTxs, currentStart, currentEnd, writes, warnings, failures>>

\* one category of the chunk (lines 213-226 and its three repetitions): the
\* fetch succeeds and its records are converted, errors dropped silently
BatchCategory ==
    /\ mainPc = "category"
    /\ \E cat \in {Categories[catIdx]} :
       \E txs \in {RemoteWindow(remote, cat, currentStart, currentEnd)} :
       \E res \in {ConvertAll(cat, txs)} :
           /\ fetchLog' = fetchLog \cup {FetchEntry(cat, currentStart, currentEnd, TRUE, txs)}
           /\ nConv' = nConv + ConvertCalls(res)
           /\ batchTxs' = BatchCollect(batchTxs, TRUE, res.out)
           /\ IF res.abort # ""
              THEN Abort(res.abort) /\ UNCHANGED catIdx
              ELSE NextCategory /\ UNCHANGED <<exitCode, reported>>
    /\ UNCHANGED <<flagVars, taskVars, allTxs, currentStart, currentEnd, writes, warnings, failures>>

\* one category of the chunk whose fetch fails: a warning, and on to the next
BatchCategoryFails ==
    /\ mainPc = "category"
    /\ failures < MaxFailures
    /\ failures' = failures + 1
    /\ LET cat == Categories[catIdx]
       IN  /\ fetchLog' = fetchLog \cup {FetchEntry(cat, currentStart, currentEnd, FALSE, <<>>)}
           /\ warnings' = Append(warnings, FetchWarning(cat, currentStart, currentEnd))
           /\ batchTxs' = BatchCollect(batchTxs, FALSE, <<>>)
    /\ NextCategory
    /\ UNCHANGED <<flagVars, exitCode, reported, taskVars, allTxs, currentStart, currentEnd,
                   writes, nConv>>

\* a loop body that writes no intermediate file for a chunk without records
BatchAppendSkippingEmpty ==
    /\ mainPc = "append"
    /\ allTxs' = allTxs \o batchTxs
    /\ IF batchTxs = <<>>
       THEN UNCHANGED <<writes, warnings, failures>>
       ELSE \E disk \in DiskStates :
               /\ DiskChosen(disk)
               /\ \E w \in {WriteCall("blocks", currentStart, currentEnd, batchTxs, disk)} :
                     /\ writes' = Append(writes, w)
                     /\ warnings' = IF w.result.err = NoError THEN warnings
                                    ELSE Append(warnings, WriteWarning(currentStart, currentEnd))
    /\ currentStart' = currentStart + batchBlocks
    /\ mainPc' = "loop"
    /\ UNCHANGED <<flagVars, exitCode, reported, catIdx, taskVars, batchTxs, currentEnd,
                   fetchLog, nConv>>

\* an end of the loop body that keeps a chunk's records for the combined file
\* only when the chunk's own file was written
BatchAppendOnWrittenOnly ==
    /\ mainPc = "append"
    /\ \E disk \in DiskStates :
          /\ DiskChosen(disk)
          /\ \E w \in {WriteCall("blocks", currentStart, currentEnd, batchTxs, disk)} :
                /\ writes' = Append(writes, w)
                /\ IF w.result.err = NoError
                   THEN allTxs' = allTxs \o batchTxs /\ UNCHANGED warnings
                   ELSE /\ warnings' = Append(warnings, WriteWarning(currentStart, currentEnd))
                        /\ UNCHANGED allTxs
    /\ currentStart' = currentStart + batchBlocks
    /\ mainPc' = "loop"
    /\ UNCHANGED <<flagVars, exitCode, reported, catIdx, taskVars, batchTxs, currentEnd,
                   fetchLog, nConv>>

\* the end of the loop body: lines 273-285 and the loop's increment
BatchAppend ==
    /\ mainPc = "append"
    /\ allTxs' = allTxs \o batchTxs
    /\ \E disk \in DiskStates :
          /\ DiskChosen(disk)
          /\ \E w \in {WriteCall("blocks", currentStart, currentEnd, batchTxs, disk)} :
                /\ writes' = Append(writes, w)
                /\ warnings' = IF w.result.err = NoError THEN warnings
                               ELSE Append(warnings, WriteWarning(currentStart, currentEnd))
    /\ currentStart' = currentStart + batchBlocks
    /\ mainPc' = "loop"
    /\ UNCHANGED <<flagVars, exitCode, reported, catIdx, taskVars, batchTxs, currentEnd,
                   fetchLog, nConv>>

\* the final combined file: lines 288-294
BatchFinal ==
    /\ mainPc = "final"
    /\ \E disk \in DiskStates :
          /\ DiskChosen(disk)
          /\ \E w \in {WriteCall("full", startBlock, endBlock, allTxs, disk)} :
                /\ writes' = Append(writes, w)
                /\ IF w.result.err = NoError
                   THEN mainPc' = "exit" /\ exitCode' = "ok" /\ UNCHANGED reported
                   ELSE Fatal(WriteErr)
    /\ UNCHANGED <<flagVars, catIdx, taskVars, allTxs, batchVars, fetchLog, warnings, nConv>>

\* the steps of a run without -batch: main and its four tasks
WholeRangeNext ==
    \/ MainDispatch
    \/ \E cat \in CategorySet : TaskFetch(cat)
    \/ \E cat \in CategorySet : TaskFetchFails(cat)
    \/ \E cat \in CategorySet : TaskReport(cat)
    \/ \E cat \in CategorySet : TaskDeliver(cat)
    \/ \E cat \in CategorySet : TaskDone(cat)
    \/ MainWait
    \/ MainSelect
    \/ MainConvert
    \/ MainMkdir
    \/ MainExport

MainNext ==
    \/ WholeRangeNext
    \/ BatchLoop
    \/ BatchCategory
    \/ BatchCategoryFails
    \/ BatchAppend
    \/ BatchFinal

vars == <<mainVars, convVars, retryVars, fetchVars>>

Init == MainInit /\ ConvIdle /\ RetryIdle /\ FetchIdle

Next == MainNext /\ UNCHANGED <<convVars, retryVars, fetchVars>>

\* the orchestrator
Spec == Init /\ [][Next]_vars

\* runs without -batch over the first block alone and over all blocks
InitLive ==
    /\ \E data \in RemoteDataSets, end \in {0, MaxBlock} : MainStart(data, 0, end, 0)
    /\ ConvIdle /\ RetryIdle /\ FetchIdle

NextLive == WholeRangeNext /\ UNCHANGED <<convVars, retryVars, fetchVars>>

\* whole-range mode under Go's scheduling: a goroutine that can run does run,
\* and every call the run makes (a fetch, MkdirAll, a write) returns
SpecLive == InitLive /\ [][NextLive]_vars /\ WF_vars(NextLive)

InitConv == ConvInit /\ MainIdle /\ RetryIdle /\ FetchIdle

NextConv == (ConvertRecord \/ ConvertAgain) /\ UNCHANGED <<mainVars, retryVars, fetchVars>>

\* the converters, one record at a time
SpecConv == InitConv /\ [][NextConv]_vars

InitSteps == StepInit /\ MainIdle /\ RetryIdle /\ FetchIdle

NextSteps == StepsNext /\ UNCHANGED <<mainVars, retryVars, fetchVars>>

\* the converters, one statement at a time
SpecSteps == InitSteps /\ [][NextSteps]_vars

InitRetry == RetryInit /\ MainIdle /\ ConvIdle /\ FetchIdle

NextRetry == RetryNext /\ UNCHANGED <<mainVars, convVars, fetchVars>>

\* one call of requestWithRetry
SpecRetry == InitRetry /\ [][NextRetry]_vars

NextCalls == CallsNext /\ UNCHANGED <<mainVars, convVars, fetchVars>>

\* the calls of requestWithRetry on one client
SpecCalls == InitRetry /\ [][NextCalls]_vars

InitFetch == FetchInit /\ MainIdle /\ ConvIdle /\ RetryIdle

NextFetch == FetchNext /\ UNCHANGED <<mainVars, convVars, retryVars>>

\* one call of GetAll<Category>
SpecFetch == InitFetch /\ [][NextFetch]_vars

(***************************************************************************)
(* The claims                                                              *)
(***************************************************************************)
Elems(seq) == {seq[i] : i \in 1..Len(seq)}

IsBase10Integer(s) == IsDigits(Unsigned(s))

\* C1: Pagination termination.  Over a listing whose pages 1..k are full and
\* whose page k+1 holds finalSize < pageSize records, GetAll<Category> asks
\* for pages 1, 2, ... in order, each once, never for more than k+1 of them,
\* and when every request succeeded it returns exactly the k*pageSize +
\* finalSize records after exactly k+1 requests.
C1_PaginationTermination ==
    LET k == ftTotal \div DefaultOffset
        finalSize == ftTotal % DefaultOffset
    IN  /\ Len(ftRequests) <= k + 1
        /\ \A i \in 1..Len(ftRequests) :
              ftRequests[i].page = Itoa(i) /\ ftRequests[i].offset = Itoa(DefaultOffset)
        /\ (ftPc = "returned" /\ ftErr = NoError) =>
              /\ Len(allTransactions) = k * DefaultOffset + finalSize
              /\ \A i \in 1..Len(allTransactions) : allTransactions[i] = i
              /\ Len(ftRequests) = k + 1

\* a fetch over full pages and a short non-empty last page has returned
C1_Witness ==
    /\ ftPc = "returned"
    /\ ftErr = NoError
    /\ ftTotal > DefaultOffset
    /\ ftTotal % DefaultOffset # 0
    /\ Len(ftRequests) >= 2
    /\ Len(allTransactions) = ftTotal

FailedFetches == {e \in fetchLog : ~e.ok}

OkFetches == {e \in fetchLog : e.ok}

\* C2: Whole-range fail-everything law.  In whole-range mode, once one of the
\* four category fetches has failed, no converter is ever called, no canonical
\* transaction exists, the CSV writer is never called, and the run can only
\* end with the fatal error of a failed fetch.
C2_WholeRangeFailEverything ==
    (batchBlocks <= 0 /\ FailedFetches # {}) =>
        /\ nConv = 0
        /\ allTxs = <<>>
        /\ writes = <<>>
        /\ mainPc \notin {"convert", "mkdir", "export"}
        /\ mainPc = "exit" => (exitCode = "fatal" /\ reported.kind = "fetch")

\* one fetch failed, the other three returned records, and the run has ended
C2_Witness ==
    /\ batchBlocks <= 0
    /\ mainPc = "exit"
    /\ exitCode = "fatal"
    /\ Cardinality(FailedFetches) = 1
    /\ Cardinality({e \in OkFetches : e.txs # <<>>}) = 3

Converted(e) == ConvertAll(e.cat, e.txs).out

RECURSIVE ConvertedCount(_)
ConvertedCount(S) ==
    IF S = {} THEN 0
    ELSE LET e == CHOOSE x \in S : TRUE
         IN  Len(Converted(e)) + ConvertedCount(S \ {e})

\* C3: Batch fail-isolated law.  The final combined output of batch mode holds
\* every successfully converted record of every category fetch that
\* succeeded, in every chunk, and nothing else: only the records of the
\* fetches that failed are missing.
C3_BatchFailIsolated ==
    \A i \in 1..Len(writes) :
        writes[i].file = "full" =>
            /\ \A e \in OkFetches : Elems(Converted(e)) \subseteq Elems(writes[i].txs)
            /\ Len(writes[i].txs) = ConvertedCount(OkFetches)

\* the final file is written after a fetch that had records to return failed
\* in a chunk where another category delivered, with a further chunk delivering
C3_Witness ==
    /\ \E i \in 1..Len(writes) : writes[i].file = "full"
    /\ \E e1 \in FailedFetches :
          /\ RemoteWindow(remote, e1.cat, e1.from, e1.to) # <<>>
          /\ \E e2 \in OkFetches :
                e2.from = e1.from /\ e2.cat # e1.cat /\ Converted(e2) # <<>>
          /\ \E e3 \in OkFetches : e3.from # e1.from /\ Converted(e3) # <<>>

RetryableFailure(resp) ==
    \/ resp.kind = "connerr"
    \/ resp.kind = "http" /\ (resp.code = 429 \/ (resp.code >= 500 /\ resp.code <= 599))

\* C4: Retry bound.  One call of makeRequest never issues more than
\* MaxRetries+1 HTTP attempts, and when every attempt met a retryable failure
\* (a connection error, 429 or 5xx) it has returned only after exactly
\* MaxRetries+1 attempts, with an error.
C4_RetryBound ==
    /\ Len(rqAttempts) <= rqMaxRetries + 1
    /\ (rqPc = "returned" /\ \A i \in 1..Len(rqAttempts) : RetryableFailure(rqAttempts[i])) =>
          /\ Len(rqAttempts) = rqMaxRetries + 1
          /\ rqErr # NoError
          /\ rqResult = "none"

\* the default budget used up on a mix of the three retryable failures
C4_Witness ==
    /\ rqPc = "returned"
    /\ rqMaxRetries = NewClientMaxRetries
    /\ Len(rqAttempts) = NewClientMaxRetries + 1
    /\ \A i \in 1..Len(rqAttempts) : RetryableFailure(rqAttempts[i])
    /\ \E i \in 1..Len(rqAttempts) : rqAttempts[i].kind = "connerr"
    /\ \E i \in 1..Len(rqAttempts) : rqAttempts[i].code = 429
    /\ \E i \in 1..Len(rqAttempts) : rqAttempts[i].code = 503

TwoRejectionsThenSuccess ==
    /\ rqMaxRetries >= 2
    /\ Len(rqAttempts) >= 3
    /\ rqAttempts[1].code = 429
    /\ rqAttempts[2].code = 429
    /\ rqAttempts[3].code = 200
    /\ rqAttempts[3].body.readable

\* C5: Retry success.  With MaxRetries >= 2, after 429, 429 and then 200,
\* makeRequest has returned the body of the third response, no fourth attempt
\* is made, and the sleeps before the success are RetryDelay and 2*RetryDelay.
C5_RetrySuccess ==
    TwoRejectionsThenSuccess =>
        /\ Len(rqAttempts) = 3
        /\ rqPc \in {"decode", "returned"}
        /\ rqBody = rqAttempts[3].body
        /\ rqSleeps = <<rqRetryDelay, 2 * rqRetryDelay>>
        /\ rqSleeps[1] + rqSleeps[2] = rqRetryDelay + 2 * rqRetryDelay

\* makeRequest has just returned the third response's body, with a delay that
\* doubling changes
C5_Witness ==
    /\ TwoRejectionsThenSuccess
    /\ rqPc = "decode"
    /\ rqRetryDelay > 0
    /\ rqBody = Envelope("1", "OK", "list")

\* the decimal expansion of w / 10^d, all d fractional digits written
ExactDecimal(w, d) == FormatFixed(FALSE, MagOf(w), d)

\* C6: Wei-to-ETH conversion is exact.  For an unsigned base-10 integer string
\* w, the Value made by ConvertNormalTxToModel and ConvertInternalTxToModel has
\* exactly 18 digits after the point and denotes exactly w / 10^18.
C6_WeiToEthExact ==
    (cvOut.status = "ok" /\ cvCat \in {"normal", "internal"} /\ IsDigits(cvTx.Value)) =>
        cvOut.tx.Value = ExactDecimal(cvTx.Value, WeiDecimals)

NumericFields(cat) ==
    IF cat = "internal" THEN {"Value"}
    ELSE IF cat = "erc721" THEN {"GasPrice", "GasUsed"}
    ELSE {"Value", "GasPrice", "GasUsed"}

HasMalformedNumeric(cat, tx) == \E f \in NumericFields(cat) : ~IsBase10Integer(tx[f])

\* the record with its malformed numeric fields read as 0
ZeroCoerced(cat, tx) ==
    [f \in DOMAIN tx |->
        IF f \in NumericFields(cat) /\ ~IsBase10Integer(tx[f]) THEN <<"0">> ELSE tx[f]]

\* C7: Malformed numeric fields are coerced to zero.  For each converter, a
\* record with a valid timestamp and a value, gasPrice or gasUsed that is not
\* a base-10 integer converts successfully, to what the record with 0 in that
\* field converts to; there is no error and no abort.
C7_MalformedCoercedToZero ==
    (cvOut # NotConverted /\ ParseInt(cvTx.TimeStamp).ok /\ HasMalformedNumeric(cvCat, cvTx)) =>
        /\ cvOut.status = "ok"
        /\ cvOut = ConvertByCategory(cvCat, ZeroCoerced(cvCat, cvTx))

\* every converter refuses a timestamp that is not a base-10 integer
StrictTimestamp ==
    \A cat \in CategorySet : \A tx \in ConvInputs(cat) :
        ~IsBase10Integer(tx.TimeStamp) => ConvertByCategory(cat, tx) = ConvError

\* the fetches whose records a CSV write is made from
WriteScope(w) ==
    IF w.file = "blocks" THEN {e \in OkFetches : e.from = w.from /\ e.to = w.to}
    ELSE OkFetches

\* C8: Strict timestamp, record-local failure.  Each converter returns an
\* error and no transaction for a timestamp that is not a base-10 integer; in
\* both modes such a record is absent from every CSV output made from its
\* fetch, and every record of that fetch that converts is present.
C8_StrictTimestampRecordLocal ==
    /\ StrictTimestamp
    /\ \A i \in 1..Len(writes) : \A e \in WriteScope(writes[i]) : \A j \in 1..Len(e.txs) :
          LET r == Convert(e.cat, e.txs[j])
          IN  /\ ~IsBase10Integer(e.txs[j].TimeStamp) =>
                    /\ r = ConvError
                    /\ \A t \in 1..Len(writes[i].txs) : writes[i].txs[t].Hash # e.txs[j].Hash
              /\ r.status = "ok" => r.tx \in Elems(writes[i].txs)

\* whole-range output written from a fetch whose first record has a bad
\* timestamp and whose later record converts
C8_Witness ==
    \E i \in 1..Len(writes) :
        /\ writes[i].file = "tx_history"
        /\ \E e \in WriteScope(writes[i]) : \E j, k \in 1..Len(e.txs) :
              /\ j < k
              /\ ~IsBase10Integer(e.txs[j].TimeStamp)
              /\ Convert(e.cat, e.txs[k]).status = "ok"
              /\ Convert(e.cat, e.txs[k]).tx \in Elems(writes[i].txs)

RejectedEnvelope(resp) ==
    /\ resp.kind = "http"
    /\ resp.code = 200
    /\ resp.body.readable
    /\ resp.body.json
    /\ resp.body.status # "1"

\* C9: Application-level rejection is not retried.  A 200 response whose
\* envelope's status flag is not "1" is the last HTTP attempt of its request,
\* and requestWithRetry returns the error that carries the envelope's message
\* and no result.
C9_RejectionNotRetried ==
    \A i \in 1..Len(rqAttempts) :
        RejectedEnvelope(rqAttempts[i]) =>
            /\ i = Len(rqAttempts)
            /\ rqPc # "makeRequest"
            /\ rqPc = "returned" =>
                  (rqErr = ApiErr(rqAttempts[i].body.message) /\ rqResult = "none")

\* a rejection that came after a retry, with retries still left
C9_Witness ==
    /\ rqPc = "returned"
    /\ Len(rqAttempts) >= 2
    /\ retries < rqMaxRetries
    /\ RejectedEnvelope(rqAttempts[Len(rqAttempts)])
    /\ rqErr = ApiErr("NOTOK")

NonRetryableStatus(resp) ==
    /\ resp.kind = "http"
    /\ resp.code < 200 \/ resp.code > 299
    /\ resp.code # 429
    /\ ~(resp.code >= 500 /\ resp.code <= 599)

\* C10: Non-retryable status fails immediately.  An attempt answered with a
\* status outside 2xx that is neither 429 nor 5xx is the last attempt:
\* makeRequest has returned the error naming that status, without sleeping
\* after the attempt, whatever retries were left.
C10_NonRetryableFailsAtOnce ==
    \A i \in 1..Len(rqAttempts) :
        NonRetryableStatus(rqAttempts[i]) =>
            /\ i = Len(rqAttempts)
            /\ rqPc = "returned"
            /\ rqErr = StatusErr(rqAttempts[i].code)
            /\ Len(rqSleeps) = i - 1
            /\ rqResult = "none"

\* a 404 after one retry, with retries still left
C10_Witness ==
    /\ rqPc = "returned"
    /\ Len(rqAttempts) >= 2
    /\ retries < rqMaxRetries
    /\ rqAttempts[Len(rqAttempts)].code = 404
    /\ rqErr = StatusErr(404)

\* C11: No partial result from a fetch.  When the request for page n of a
\* GetAll<Category> call has failed unrecoverably, the call has returned that
\* error with an empty record list, whatever pages 1..n-1 delivered, and page
\* n is the last page it requested.
C11_NoPartialResult ==
    /\ ftErr # NoError =>
          /\ ftPc = "returned"
          /\ allTransactions = <<>>
          /\ Len(ftRequests) = page
          /\ Len(ftSleeps) = page - 1
    /\ ftPc = "returned" =>
          ftErr \in {NoError, TransportErr, StatusErr(404), ApiErr("NOTOK"), JsonErr}

\* the third page failed after two full pages had been fetched
C11_Witness ==
    /\ ftPc = "returned"
    /\ ftErr = ApiErr("NOTOK")
    /\ page = 3
    /\ Len(ftRequests) = 3
    /\ ftTotal >= 2 * DefaultOffset
    /\ allTransactions = <<>>

\* the decimal expansion of gasPrice * gasUsed / 10^18, all 18 digits written
ExactGasFee(gasPrice, gasUsed) ==
    FormatFixed(FALSE, BigMul(MagOf(gasPrice), MagOf(gasUsed)), WeiDecimals)

\* C12: ERC-721 conversion.  Every ERC-721 record with a valid timestamp
\* converts to a transaction whose Value is the literal "1", whatever its
\* other fields hold, and whose GasFee is gasPrice * gasUsed / 10^18 written
\* with 18 fractional digits.
C12_ERC721Conversion ==
    (cvOut # NotConverted /\ cvCat = "erc721" /\ ParseInt(cvTx.TimeStamp).ok) =>
        /\ cvOut.status = "ok"
        /\ cvOut.tx.Value = <<"1">>
        /\ (IsDigits(cvTx.GasPrice) /\ IsDigits(cvTx.GasUsed)) =>
              cvOut.tx.GasFee = ExactGasFee(cvTx.GasPrice, cvTx.GasUsed)

\* C13: Internal-transfer conversion.  Every internal record with a valid
\* timestamp converts to a transaction whose GasFee is the literal "0",
\* whatever its other fields hold.
C13_InternalGasFeeZero ==
    (cvOut # NotConverted /\ cvCat = "internal" /\ ParseInt(cvTx.TimeStamp).ok) =>
        /\ cvOut.status = "ok"
        /\ cvOut.tx.GasFee = <<"0">>

\* C14: ERC-20 conversion scale.  Every ERC-20 record with a valid timestamp,
\* token decimals d >= 0 and an unsigned integer value v converts to a
\* transaction whose Value is v / 10^d written with exactly d fractional
\* digits and whose GasFee is gasPrice * gasUsed / 10^18 written with 18.
C14_ERC20Scale ==
    (/\ cvOut # NotConverted
     /\ cvCat = "erc20"
     /\ ParseInt(cvTx.TimeStamp).ok
     /\ IsDigits(cvTx.TokenDecimal)
     /\ IsDigits(cvTx.Value)) =>
        /\ cvOut.status = "ok"
        /\ ~Atoi(cvTx.TokenDecimal).huge =>
              cvOut.tx.Value = ExactDecimal(cvTx.Value, SmallInt(Atoi(cvTx.TokenDecimal).mag))
        /\ (IsDigits(cvTx.GasPrice) /\ IsDigits(cvTx.GasUsed)) =>
              cvOut.tx.GasFee = ExactGasFee(cvTx.GasPrice, cvTx.GasUsed)

\* C15: Conversion is deterministic and stateless.  Whenever one run has
\* called the same converter on the same raw record twice, whatever it converted
\* in between and whatever those calls left in memory, the two calls ended the
\* same way: with the same transaction field by field, or with an error both
\* times.
C15_ConversionDeterministic ==
    \A i, j \in 1..Len(cvDone) :
        (cvDone[i].cat = cvDone[j].cat /\ cvDone[i].tx = cvDone[j].tx) =>
            /\ cvDone[i].out.status = cvDone[j].out.status
            /\ \A f \in DOMAIN cvDone[i].out.tx : cvDone[i].out.tx[f] = cvDone[j].out.tx[f]

\* an internal record converted, then a normal record with another value and
\* a gas fee, whose locals are still in memory, then the internal record once
\* more
C15_Witness ==
    /\ Len(cvDone) = 3
    /\ cvPc = "returned"
    /\ cvDone[1].cat = "internal"
    /\ cvDone[1].out.status = "ok"
    /\ cvDone[1].tx.Value = SixteenEthPlusOneWei
    /\ cvDone[2].tx = OtherNormalRecord
    /\ cvDone[2].out.status = "ok"
    /\ cvDone[3].cat = cvDone[1].cat
    /\ cvDone[3].tx = cvDone[1].tx
    /\ cvLocals.gasFeeStr = cvDone[2].out.tx.GasFee
    /\ cvLocals.gasFeeStr # cvDone[3].out.tx.GasFee
    /\ cvDone[3].out.tx.Value # cvDone[2].out.tx.Value

\* the chunks the loop of processInBatches has entered so far, in order: those
\* it has written and the one it is working on
ChunkBounds ==
    LET done == SelectSeq(writes, LAMBDA w : w.file = "blocks")
    IN  [i \in 1..Len(done) |-> <<done[i].from, done[i].to>>]
        \o (IF mainPc \in {"category", "append"} THEN <<<<currentStart, currentEnd>>>> ELSE <<>>)

\* the loop of processInBatches has run to its end
LoopEnded == mainPc = "final" \/ (mainPc = "exit" /\ exitCode \in {"ok", "fatal"})

CeilDiv(a, b) == (a + b - 1) \div b

\* C16: Chunk partition.  In batch mode with batchSize > 0 and startBlock <
\* endBlock the chunks (s_i, e_i) start at startBlock, each ends at
\* min(s_i + batchSize, endBlock), each next one starts where the one before
\* ended, and when the loop has ended the last one ends at endBlock, there are
\* ceil((endBlock - startBlock) / batchSize) of them, and every block b with
\* startBlock <= b < endBlock lies in exactly one [s_i, e_i).
C16_ChunkPartition ==
    (batchBlocks > 0 /\ startBlock < endBlock) =>
        LET ch == ChunkBounds
            n == Len(ch)
        IN  /\ n <= CeilDiv(endBlock - startBlock, batchBlocks)
            /\ n > 0 => ch[1][1] = startBlock
            /\ \A i \in 1..n : ch[i][2] = Min(ch[i][1] + batchBlocks, endBlock)
            /\ \A i \in 1..(n - 1) : ch[i + 1][1] = ch[i][2]
            /\ LoopEnded =>
                  /\ n = CeilDiv(endBlock - startBlock, batchBlocks)
                  /\ ch[n][2] = endBlock
                  /\ \A b \in startBlock..(endBlock - 1) :
                        Cardinality({i \in 1..n : ch[i][1] <= b /\ b < ch[i][2]}) = 1

\* the loop has ended after two chunks or more, the last one clipped
C16_Witness ==
    /\ batchBlocks > 0
    /\ mainPc = "final"
    /\ Len(ChunkBounds) >= 2
    /\ ChunkBounds[Len(ChunkBounds)][2] - ChunkBounds[Len(ChunkBounds)][1] < batchBlocks
    /\ ChunkBounds[Len(ChunkBounds)][2] = endBlock

\* the records one chunk converts: category after category, those of the
\* fetches that succeeded
RECURSIVE ChunkRecords(_, _, _)
ChunkRecords(from, to, k) ==
    IF k > Len(Categories) THEN <<>>
    ELSE LET es == {e \in OkFetches : e.cat = Categories[k] /\ e.from = from /\ e.to = to}
         IN  (IF es = {} THEN <<>> ELSE Converted(CHOOSE e \in es : TRUE))
             \o ChunkRecords(from, to, k + 1)

RECURSIVE ConcatChunks(_, _)
ConcatChunks(ws, n) == IF n = 0 THEN <<>> ELSE ConcatChunks(ws, n - 1) \o ws[n].txs

\* how many chunks the range of the run splits into
ChunkCount ==
    IF startBlock < endBlock THEN CeilDiv(endBlock - startBlock, batchBlocks) ELSE 0

\* C17: Writer call protocol.  A batch-mode run over n chunks that has run to
\* its end has called the CSV writer exactly n+1 times: once per chunk, in
\* chunk order, for the file of that chunk's bounds with that chunk's
\* converted records, and a last time for the combined file with the records
\* of all chunks; a successful whole-range run has called it exactly once.
C17_WriterCallProtocol ==
    /\ (batchBlocks > 0 /\ mainPc = "exit" /\ exitCode \in {"ok", "fatal"}) =>
          /\ Len(writes) = ChunkCount + 1
          /\ \A i \in 1..ChunkCount :
                /\ writes[i].file = "blocks"
                /\ writes[i].from = startBlock + (i - 1) * batchBlocks
                /\ writes[i].to = Min(writes[i].from + batchBlocks, endBlock)
                /\ writes[i].txs = ChunkRecords(writes[i].from, writes[i].to, 1)
          /\ writes[ChunkCount + 1].file = "full"
          /\ writes[ChunkCount + 1].txs = ConcatChunks(writes, ChunkCount)
    /\ (batchBlocks <= 0 /\ mainPc = "exit" /\ exitCode = "ok") =>
          /\ Len(writes) = 1
          /\ writes[1].file = "tx_history"
          /\ writes[1].result.err = NoError
    /\ batchBlocks <= 0 => Len(writes) <= 1

\* a batch run of two chunks, the first without records and the second with
\* some, has made its three calls
C17_Witness ==
    /\ batchBlocks > 0
    /\ mainPc = "exit"
    /\ exitCode = "ok"
    /\ ChunkCount = 2
    /\ Len(writes) = 3
    /\ writes[1].txs = <<>>
    /\ writes[2].txs # <<>>
    /\ writes[3].txs = writes[2].txs

\* C18: Every dropped record is warned about.  In both modes, every record
\* that is missing from a CSV output because its conversion returned an
\* error has a warning naming it.
C18_DroppedRecordsWarned ==
    \A i \in 1..Len(writes) : \A e \in WriteScope(writes[i]) : \A j \in 1..Len(e.txs) :
        Convert(e.cat, e.txs[j]).status = "error" =>
            ConvertWarning(e.cat, e.txs[j].Hash) \in Elems(warnings)

\* C19: CSV export shape.  Every call of ExportTransactionsToCSV that
\* returns no error on a list of n transactions has left a file of n+1 rows,
\* the header row first and then one row per transaction in list order (the
\* header alone when n = 0), and every call for a file that cannot be
\* created returns an error.
C19_CsvExportShape ==
    \A i \in 1..Len(writes) :
        LET w == writes[i]
        IN  /\ w.result.err = NoError =>
                 /\ Len(w.result.rows) = Len(w.txs) + 1
                 /\ w.result.rows[1] = CSVHeaders
                 /\ \A k \in 1..Len(w.txs) :
                       /\ Len(w.result.rows[k + 1]) = Len(CSVHeaders)
                       /\ w.result.rows[k + 1][1] = w.txs[k].Hash
                       /\ w.result.rows[k + 1][5] = w.txs[k].Type
                       /\ w.result.rows[k + 1][9] = w.txs[k].Value
                       /\ w.result.rows[k + 1][10] = w.txs[k].GasFee
            /\ ~w.disk.creatable => w.result.err # NoError

\* the number a decimal parameter denotes
DecimalValue(s) ==
    IF ParseInt(s).neg THEN 0 - SmallInt(ParseInt(s).mag) ELSE SmallInt(ParseInt(s).mag)

ExpectedAction ==
    [normal |-> "txlist", internal |-> "txlistinternal", erc20 |-> "tokentx",
     erc721 |-> "tokennfttx"]

\* C20: Request parameters are fixed per fetch.  Every page request of one
\* GetAll<Category> call carries module=account, the category's action, the
\* call's address, startblock and endblock, offset=1000 and sort=asc; only
\* page changes, and it counts up from 1.
C20_RequestParametersFixed ==
    \A i \in 1..Len(ftRequests) :
        LET r == ftRequests[i]
        IN  /\ r.module = "account"
            /\ r.action = ExpectedAction[ftCat]
            /\ r.address = ftAddress
            /\ ParseInt(r.startblock).ok /\ DecimalValue(r.startblock) = ftStartBlock
            /\ ParseInt(r.endblock).ok /\ DecimalValue(r.endblock) = ftEndBlock
            /\ r.offset = <<"1", "0", "0", "0">>
            /\ r.sort = "asc"
            /\ ParseInt(r.page).ok /\ DecimalValue(r.page) = i
            /\ \A j \in 1..Len(ftRequests) :
                  [ftRequests[j] EXCEPT !.page = r.page] = r

\* three pages of ERC-20 transfers requested for a range from a negative
\* start block to the default end block
C20_Witness ==
    /\ Len(ftRequests) = 3
    /\ ftCat = "erc20"
    /\ ftStartBlock < 0
    /\ ftEndBlock = DefaultEndBlock
    /\ ftRequests[3].page = <<"3">>
    /\ ftRequests[3].startblock = <<"-", "1">>

\* the steps of one category task (lines 66-115)
TaskStep(cat) ==
    \/ TaskFetch(cat)
    \/ TaskFetchFails(cat)
    \/ TaskReport(cat)
    \/ TaskDeliver(cat)
    \/ TaskDone(cat)

TasksFinished == \A c \in CategorySet : gPc[c] = "done"

\* C21: Barrier without cancellation.  In whole-range mode a task that has
\* started and not yet returned can always take its next step, whatever its
\* siblings did (nothing cancels or blocks it); and until all four tasks have
\* returned, main is still at the barrier: no error has been looked at, no
\* converter called, no record consumed, nothing written.
C21_BarrierWithoutCancellation ==
    batchBlocks <= 0 =>
        /\ \A c \in CategorySet : gPc[c] \notin {"unborn", "done"} => ENABLED TaskStep(c)
        /\ mainPc \in {"select", "convert", "mkdir", "export", "exit"} => TasksFinished
        /\ ~TasksFinished =>
              /\ nConv = 0 /\ allTxs = <<>> /\ writes = <<>> /\ warnings = <<>>
              /\ reported = NoError /\ exitCode = "running"
              /\ \A c \in CategorySet : Len(resultCh[c]) = (IF gPc[c] \in {"return", "done"} THEN 1 ELSE 0)

\* main waits at the barrier while one task has failed and returned and a
\* sibling, whose fetch succeeded after that, has not yet delivered
C21_Witness ==
    /\ batchBlocks <= 0
    /\ mainPc = "wait"
    /\ \E c \in CategorySet : gPc[c] = "done" /\ gErr[c] # NoError
    /\ \E d \in CategorySet : gPc[d] = "deliver" /\ gErr[d] = NoError /\ gTxs[d] # <<>>

\* C22: Error-collector writes never block.  In every interleaving of the
\* four whole-range tasks the error channel holds at most one error per task,
\* which is at most its capacity; a task that is about to send its error can
\* always send it at once; and once main waits at the barrier, every task
\* returns and main passes the barrier.
C22_ErrorSendNeverBlocks ==
    /\ [](batchBlocks <= 0 =>
            /\ Len(errorCh) <= TaskCount
            /\ \A c \in CategorySet : gPc[c] = "report" => ENABLED TaskReport(c))
    /\ (batchBlocks <= 0 /\ mainPc = "wait") ~> (mainPc = "select" /\ TasksFinished)

\* all four fetches failed, all four errors are in the channel, and main has
\* passed the barrier
C22_Witness ==
    /\ batchBlocks <= 0
    /\ mainPc = "select"
    /\ Len(errorCh) = ErrorChCap
    /\ \A c \in CategorySet : gPc[c] = "done" /\ gErr[c] # NoError

FailedTasks == {c \in CategorySet : gErr[c] # NoError}

ErrorsOf(c) == {i \in 1..Len(errorCh) : errorCh[i].cat = c}

\* C23: The collector records every failure.  When main has passed the
\* barrier of whole-range mode and not yet looked at the collector, the
\* collector holds as many errors as category fetches failed: exactly one for
\* each task whose fetch failed, wrapping that task's own error, and none for
\* a task whose fetch succeeded.
C23_CollectorRecordsEveryFailure ==
    (batchBlocks <= 0 /\ mainPc = "select") =>
        /\ Len(errorCh) = Cardinality(FailedTasks)
        /\ FailedTasks = {e.cat : e \in FailedFetches}
        /\ \A c \in CategorySet :
              /\ Cardinality(ErrorsOf(c)) = (IF c \in FailedTasks THEN 1 ELSE 0)
              /\ \A i \in ErrorsOf(c) : errorCh[i] = WrapFetchErr(c, gErr[c])

\* the barrier is passed after two fetches failed and two succeeded
C23_Witness ==
    /\ batchBlocks <= 0
    /\ mainPc = "select"
    /\ Cardinality(FailedTasks) = 2
    /\ Len(errorCh) = 2
    /\ \E c \in CategorySet : c \notin FailedTasks /\ Head(resultCh[c]) # <<>>

\* C24: First recorded error wins.  In whole-range mode the run takes a fetch
\* error as its fatal error only at the select after the barrier, when all
\* four tasks have returned, and the error it takes is the one at the head of
\* the collector, recorded before every other error the collector holds; a
\* non-empty collector always ends the run there.
C24_FirstRecordedErrorWins ==
    [][batchBlocks <= 0 =>
          /\ (mainPc = "select" /\ errorCh # <<>>) =>
                /\ mainPc' = "exit" /\ exitCode' = "fatal"
                /\ reported' = errorCh[1]
                /\ errorCh' = Tail(errorCh)
          /\ (reported' # reported) =>
                IF mainPc = "select"
                THEN /\ TasksFinished
                     /\ reported' = errorCh[1]
                     /\ \A i \in 2..Len(errorCh) : errorCh[i] # reported'
                ELSE reported'.kind # "fetch"]_vars

\* the run has ended with the ERC-721 task's error while the normal task's
\* error, recorded later, is still in the collector
C24_Witness ==
    /\ batchBlocks <= 0
    /\ mainPc = "exit"
    /\ exitCode = "fatal"
    /\ reported = WrapFetchErr("erc721", FetchFailure)
    /\ \E i \in 1..Len(errorCh) : errorCh[i].cat = "normal"
    /\ Len(errorCh) >= 2

\* the remote's records of the run's block range, category by category, each
\* with its category
Tagged(cat) ==
    LET txs == RemoteWindow(remote, cat, startBlock, endBlock)
    IN  Tup([i \in 1..Len(txs) |-> <<cat, txs[i]>>], Len(txs))

ListingInCategoryOrder ==
    Tagged("normal") \o Tagged("internal") \o Tagged("erc20") \o Tagged("erc721")

Convertible(p) == Convert(p[1], p[2]).status = "ok"

\* C25: Output order in whole-range mode.  Whatever the interleaving of the
\* four tasks, the list handed to the CSV writer is the remote's normal,
\* internal, ERC-20 and ERC-721 records of the range, in that category order
\* and inside a category in the remote's order, with the records whose
\* conversion failed left out and every other record converted in place.
C25_WholeRangeOutputOrder ==
    batchBlocks <= 0 =>
        \A w \in 1..Len(writes) :
            LET kept == SelectSeq(ListingInCategoryOrder, Convertible)
            IN  /\ Len(writes[w].txs) = Len(kept)
                /\ \A i \in 1..Len(kept) :
                      writes[w].txs[i] = Convert(kept[i][1], kept[i][2]).tx

\* the export of a run in which every category had a record converted and a
\* record dropped
C25_Witness ==
    /\ batchBlocks <= 0
    /\ Len(writes) = 1
    /\ \A c \in CategorySet :
          /\ \E i \in 1..Len(warnings) : warnings[i] = ConvertWarning(c, warnings[i].hash)
          /\ \E p \in Elems(Tagged(c)) : Convertible(p)
    /\ Len(writes[1].txs) = TaskCount

\* the attempts of the call that failed in a retryable way
RetryableFailures == {i \in 1..Len(rqAttempts) : RetryableFailure(rqAttempts[i])}

\* C26: Pure exponential backoff.  Within one makeRequest call the n-th sleep
\* lasts RetryDelay * 2^(n-1); there is one sleep after each retryable
\* failure, of either kind, that is followed by another attempt, hence at most
\* MaxRetries of them, and none after the failure that exhausts the budget nor
\* after an attempt that ends the call.
C26_PureExponentialBackoff ==
    /\ \A n \in 1..Len(rqSleeps) : rqSleeps[n] = rqRetryDelay * 2^(n - 1)
    /\ Len(rqSleeps) <= Max(rqMaxRetries, 0)
    /\ retries = Cardinality(RetryableFailures)
    /\ Len(rqSleeps) = (IF retries > rqMaxRetries /\ retries > 0 THEN retries - 1 ELSE retries)
    /\ rqPc = "makeRequest" => Len(rqSleeps) = Len(rqAttempts)
    /\ (rqPc # "makeRequest" /\ rqAttempts # <<>>) => Len(rqSleeps) = Len(rqAttempts) - 1

\* a call with a budget of three retries has slept three doubling delays,
\* after a connection error, a 429 and a 5xx, and then failed for good
C26_Witness ==
    /\ rqMaxRetries = MaxRetriesBound
    /\ rqRetryDelay = MaxRetryDelay
    /\ rqPc = "returned"
    /\ Len(rqAttempts) = MaxRetriesBound + 1
    /\ rqAttempts[1] = ConnError
    /\ rqAttempts[2] = HttpResponse(StatusTooManyRequests, NoBody)
    /\ rqAttempts[3] = HttpResponse(503, NoBody)
    /\ RetryableFailure(rqAttempts[4])
    /\ Len(rqSleeps) = MaxRetriesBound
    /\ rqSleeps[3] = 4 * MaxRetryDelay

\* the sleeps a call has made when its retry count is r
SleepsAt(r) == IF r > rqMaxRetries /\ r > 0 THEN r - 1 ELSE r

\* C27: Retry state is local to one call.  Every call of makeRequest starts
\* with a retry count of 0 and a delay of RetryDelay, whatever the calls
\* before it consumed; its count and delay are those of its own failures and
\* sleeps alone, so it can always use its whole budget; a step of a call in
\* another task changes neither, and no step changes the client's MaxRetries
\* or RetryDelay.
C27_RetryStateLocal ==
    /\ [][/\ rqMaxRetries' = rqMaxRetries /\ rqRetryDelay' = rqRetryDelay
          /\ rqCalls' # rqCalls =>
                retries' = 0 /\ delay' = rqRetryDelay /\ rqPc' = "makeRequest"
          /\ coVars' # coVars => (retries' = retries /\ delay' = delay /\ rqPc' = rqPc)
          /\ (retries' # retries \/ delay' # delay) => coVars' = coVars]_vars
    /\ [](/\ retries = Cardinality(RetryableFailures)
          /\ delay = rqRetryDelay * 2^Len(rqSleeps)
          /\ coDelay = rqRetryDelay * 2^SleepsAt(coRetries)
          /\ (rqPc = "makeRequest" /\ retries <= rqMaxRetries) => ENABLED makeRequestAttempt)

\* the client's second call has retried three times, its whole budget, after
\* the first call had used up its own, while the call in another task has
\* retried twice
C27_Witness ==
    /\ rqMaxRetries = MaxRetriesBound
    /\ rqRetryDelay > 0
    /\ rqCalls = 2
    /\ rqSpent
    /\ retries = MaxRetriesBound
    /\ Len(rqSleeps) = MaxRetriesBound
    /\ rqPc = "makeRequest"
    /\ coRetries = 2

\* C28: Inter-page delay.  In one GetAll<Category> call every delay lasts
\* 200ms; while the loop runs there is one delay per page requested so far,
\* all of them full pages that came back; once the call has returned after n
\* page requests there are exactly n-1 of them, none after the short last
\* page and none after a failed page; and a step that adds a delay leaves the
\* retry count and the retry delay of the transport as they are.
C28_InterPageDelay ==
    /\ [](/\ \A i \in 1..Len(ftSleeps) : ftSleeps[i] = PageDelayMs
          /\ ftPc = "loop" =>
                /\ Len(ftSleeps) = Len(ftRequests)
                /\ Len(allTransactions) = Len(ftSleeps) * DefaultOffset
          /\ (ftPc = "returned" /\ Len(ftRequests) > 0) =>
                Len(ftSleeps) = Len(ftRequests) - 1)
    /\ [][ftSleeps' # ftSleeps =>
             /\ retries' = retries /\ delay' = delay /\ rqSleeps' = rqSleeps
             /\ ftSleeps' = Append(ftSleeps, PageDelayMs)
             /\ Len(ftRequests') = Len(ftRequests) + 1
             /\ ftPc' = "loop"]_vars

\* a call has returned after two full pages and a short one, with two delays
C28_Witness ==
    /\ ftPc = "returned"
    /\ ftErr = NoError
    /\ Len(ftRequests) = MaxFullPages + 1
    /\ ftSleeps = <<PageDelayMs, PageDelayMs>>
    /\ ftTotal % DefaultOffset = 1

\* the categories whose fetch for the chunk starting at block from is logged
FetchedOfChunk(from) == {e.cat : e \in {f \in fetchLog : f.from = from}}

\* C29: Batch mode is strictly sequential.  In a batch-mode run no task
\* exists; every step starts and finishes at most one category fetch, the one
\* of the category whose turn it is in the current chunk, after the fetches of
\* the categories before it in the order normal, internal, ERC-20, ERC-721 and
\* before those after it; and the loop moves to the next chunk only in the
\* step that attempts the chunk's intermediate write, after all four fetches.
C29_BatchSequential ==
    [][batchBlocks > 0 =>
          /\ \A c \in CategorySet : gPc[c] = "unborn" /\ gPc'[c] = "unborn"
          /\ fetchLog' # fetchLog =>
                /\ mainPc = "category"
                /\ \E e \in fetchLog' \ fetchLog :
                      /\ fetchLog' = fetchLog \cup {e}
                      /\ e.cat = <<"normal", "internal", "erc20", "erc721">>[catIdx]
                      /\ e.from = currentStart /\ e.to = currentEnd
                /\ FetchedOfChunk(currentStart) =
                      {<<"normal", "internal", "erc20", "erc721">>[j] : j \in 1..(catIdx - 1)}
          /\ currentStart' # currentStart =>
                /\ FetchedOfChunk(currentStart) = CategorySet
                /\ Len(writes') = Len(writes) + 1
                /\ writes'[Len(writes')].file = "blocks"
                /\ writes'[Len(writes')].from = currentStart
                /\ writes'[Len(writes')].to = currentEnd
                /\ FetchedOfChunk(currentStart') = {}
                /\ fetchLog' = fetchLog]_vars

\* the second chunk has had its normal and internal fetches, after the first
\* chunk's four fetches and its intermediate write
C29_Witness ==
    /\ batchBlocks > 0
    /\ mainPc = "category"
    /\ currentStart = startBlock + batchBlocks
    /\ catIdx = 3
    /\ FetchedOfChunk(currentStart) = {"normal", "internal"}
    /\ FetchedOfChunk(startBlock) = CategorySet
    /\ Len(writes) = 1

\* C30: Batch mode always completes.  A batch-mode run that has ended has
\* processed every chunk of its range and attempted the final combined write,
\* its last call of the writer, however many fetches and intermediate writes
\* failed; and it has ended badly only if that final write failed.
C30_BatchAlwaysCompletes ==
    (batchBlocks > 0 /\ mainPc = "exit") =>
        /\ currentStart >= endBlock
        /\ writes # <<>>
        /\ writes[Len(writes)].file = "full"
        /\ Len(writes) = ChunkCount + 1
        /\ IF writes[Len(writes)].result.err = NoError THEN exitCode = "ok"
           ELSE exitCode = "fatal" /\ reported = WriteErr

\* the type the spec gives to the records of each category
TypeOfCategory ==
    [normal |-> "ETH_TRANSFER", internal |-> "INTERNAL_TRANSFER",
     erc20 |-> "ERC20_TRANSFER", erc721 |-> "ERC721_TRANSFER"]

\* every list of canonical transactions the run holds or has handed to the
\* writer
OutputLists == {allTxs, batchTxs} \cup {writes[i].txs : i \in 1..Len(writes)}

\* C31: Only four categories are produced.  In both modes every canonical
\* transaction of every list the run builds or writes, and the type cell of
\* every row of every file, has one of the four types ETH_TRANSFER,
\* INTERNAL_TRANSFER, ERC20_TRANSFER and ERC721_TRANSFER, namely the type of
\* the category whose listing holds the record it was converted from;
\* ERC1155_TRANSFER and CONTRACT_CALL never appear.
C31_OnlyFourCategories ==
    /\ \A list \in OutputLists : \A i \in 1..Len(list) :
          /\ list[i].Type \in {TypeOfCategory[c] : c \in CategorySet}
          /\ list[i].Type \notin {"ERC1155_TRANSFER", "CONTRACT_CALL"}
          /\ \E c \in CategorySet : \E r \in Elems(remote[c]) : r.Hash = list[i].Hash
          /\ \A c \in CategorySet : \A r \in Elems(remote[c]) :
                r.Hash = list[i].Hash => list[i].Type = TypeOfCategory[c]
    /\ \A w \in 1..Len(writes) : \A j \in 2..Len(writes[w].result.rows) :
          /\ writes[w].result.rows[j][5] = writes[w].txs[j - 1].Type
          /\ writes[w].result.rows[j][5] \in {TypeOfCategory[c] : c \in CategorySet}

\* a file has been written that holds records of all four types
C31_Witness ==
    \E w \in 1..Len(writes) :
        /\ writes[w].disk = DiskOk
        /\ {writes[w].result.rows[j][5] : j \in 2..Len(writes[w].result.rows)}
              = {TypeOfCategory[c] : c \in CategorySet}

\* the block numbers a request for the window (from, to) asks the remote for,
\* both bounds included
WindowBlocks(from, to) == {b \in 0..(MaxBlock + MaxBatch) : from <= b /\ b <= to}

\* C32: Chunks do not overlap at the remote.  In a batch-mode run the windows
\* sent to the remote for two different chunks share no block number, no
\* remote record is returned to two chunks, and no record is twice in the
\* list written to the combined file.
C32_ChunksDisjointAtRemote ==
    batchBlocks > 0 =>
        /\ \A e1, e2 \in fetchLog :
              e1.from # e2.from =>
                  /\ WindowBlocks(e1.from, e1.to) \cap WindowBlocks(e2.from, e2.to) = {}
                  /\ e1.cat = e2.cat => Elems(e1.txs) \cap Elems(e2.txs) = {}
        /\ \A w \in 1..Len(writes) :
              writes[w].file = "full" =>
                  \A i, j \in 1..Len(writes[w].txs) :
                      writes[w].txs[i].Hash = writes[w].txs[j].Hash => i = j

\* the list whole-range mode exports for the run's range: the remote's
\* listing in category order, the convertible records converted
WholeRangeList ==
    LET kept == SelectSeq(ListingInCategoryOrder, Convertible)
    IN  Tup([i \in 1..Len(kept) |-> Convert(kept[i][1], kept[i][2]).tx], Len(kept))

\* C33: Single-chunk batch mode equals whole-range mode.  For startBlock <
\* endBlock, the same remote and no failed fetch, the list a whole-range run
\* exports and the list a batch-mode run whose batch size covers the whole
\* range writes to its combined file are the same list, record for record:
\* both are the whole-range list of the range (and the one chunk's own file
\* holds it too).
C33_SingleChunkEqualsWholeRange ==
    (startBlock < endBlock /\ FailedFetches = {}) =>
        /\ batchBlocks <= 0 =>
              \A w \in 1..Len(writes) : writes[w].txs = WholeRangeList
        /\ (batchBlocks > 0 /\ batchBlocks >= endBlock - startBlock) =>
              \A w \in 1..Len(writes) : writes[w].txs = WholeRangeList

\* a batch-mode run of one chunk covering the range has written its combined
\* file, with records of three categories or more and a record dropped
C33_Witness ==
    /\ batchBlocks > 0
    /\ startBlock < endBlock
    /\ batchBlocks >= endBlock - startBlock
    /\ FailedFetches = {}
    /\ Len(writes) = 2
    /\ writes[2].file = "full"
    /\ Cardinality({writes[2].txs[i].Type : i \in 1..Len(writes[2].txs)}) >= 3
    /\ Len(writes[2].txs) < Len(ListingInCategoryOrder)

ConnFailures == {i \in 1..Len(rqAttempts) : rqAttempts[i].kind = "connerr"}

StatusFailures ==
    {i \in 1..Len(rqAttempts) :
        rqAttempts[i].kind = "http" /\ RetryableFailure(rqAttempts[i])}

\* C34: One retry budget for all failure kinds.  Within one makeRequest call
\* the connection failures and the 429/5xx responses together make the retry
\* count; while the call runs their total is at most MaxRetries, and with the
\* (MaxRetries+1)-th failure in total, of whichever kinds and in whichever
\* order, the call has returned the error of that last failure.
C34_OneRetryBudget ==
    LET total == Cardinality(ConnFailures) + Cardinality(StatusFailures)
    IN  /\ retries = total
        /\ total <= Max(rqMaxRetries + 1, 0)
        /\ rqPc = "makeRequest" => total <= Max(rqMaxRetries, 0)
        /\ (rqMaxRetries >= 0 /\ total = rqMaxRetries + 1) =>
              /\ rqPc = "returned"
              /\ Len(rqAttempts) = rqMaxRetries + 1
              /\ rqErr.kind = (IF Len(rqAttempts) \in ConnFailures THEN "transport"
                               ELSE "status-after-retries")

\* with a budget of one retry the call has given up after one connection
\* failure and one 5xx response, one failure of each kind
C34_Witness ==
    /\ rqMaxRetries = 1
    /\ rqPc = "returned"
    /\ rqAttempts = <<ConnError, HttpResponse(ServerErrorFloor, NoBody)>>
    /\ rqErr = StatusAfterRetriesErr(ServerErrorFloor, 1)

\* the categories whose list main has not yet received
NotYetReceived ==
    IF mainPc \in {"wait", "select"} THEN CategorySet
    ELSE IF mainPc = "convert" THEN {Categories[j] : j \in catIdx..Len(Categories)}
    ELSE {}

\* C35: Result hand-off cannot deadlock.  In whole-range mode a task that is
\* about to send on its result channel can always send; a channel never holds
\* more than its one value, which is the task's list after a successful fetch
\* and nil after a failed one; once the barrier is passed every channel main
\* has not yet received from holds exactly one value, so the receive main is
\* at in the conversion phase can always be taken.
C35_ResultHandOff ==
    batchBlocks <= 0 =>
        /\ \A c \in CategorySet :
              /\ Len(resultCh[c]) <= ResultChCap
              /\ gPc[c] = "deliver" => (resultCh[c] = <<>> /\ ENABLED TaskDeliver(c))
              /\ resultCh[c] # <<>> =>
                    /\ gPc[c] \in {"return", "done"}
                    /\ Head(resultCh[c]) = (IF gErr[c] = NoError THEN gTxs[c] ELSE <<>>)
        /\ mainPc \in {"select", "convert"} =>
              \A c \in CategorySet :
                  Len(resultCh[c]) = (IF c \in NotYetReceived THEN 1 ELSE 0)
        /\ mainPc = "convert" => ENABLED MainConvert

\* main has received the normal and the internal list and is at the receive
\* of the ERC-20 list, which is there with records in it
C35_Witness ==
    /\ batchBlocks <= 0
    /\ mainPc = "convert"
    /\ catIdx = 3
    /\ resultCh["normal"] = <<>> /\ resultCh["internal"] = <<>>
    /\ Len(resultCh["erc20"]) = 1 /\ Head(resultCh["erc20"]) # <<>>
    /\ Len(resultCh["erc721"]) = 1

\* C36: Termination of a fetch.  When every call the run makes returns, every
\* category task's fetch returns, with its records or with an error, and the
\* whole-range run goes on to its end, which is either the export of the
\* records or the fatal error of a failed fetch, directory or write.
C36_WholeRangeEnds ==
    /\ \A c \in CategorySet : <>(gPc[c] = "done")
    /\ <>(mainPc = "exit" /\ exitCode \in {"ok", "fatal"})

\* C37: Empty range in batch mode.  With a positive batch size and startBlock
\* >= endBlock the run enters no chunk: it asks the remote for nothing, calls
\* no converter, writes no intermediate file and warns about nothing; it goes
\* from the loop straight to the final write, and when it has ended it has
\* called the writer exactly once, for the combined file with zero records
\* (a file holding the header row alone, when it can be created).
C37_EmptyRangeBatch ==
    (batchBlocks > 0 /\ startBlock >= endBlock) =>
        /\ mainPc \in {"start", "loop", "final", "exit"}
        /\ fetchLog = {} /\ nConv = 0 /\ allTxs = <<>> /\ batchTxs = <<>>
        /\ \A w \in 1..Len(writes) : writes[w].file = "full" /\ writes[w].txs = <<>>
        /\ warnings = <<>>
        /\ mainPc \in {"start", "loop", "final"} => writes = <<>>
        /\ mainPc = "exit" =>
              /\ Len(writes) = 1
              /\ IF writes[1].result.err = NoError
                 THEN exitCode = "ok"
                 ELSE exitCode = "fatal" /\ reported = WriteErr
              /\ Len(writes[1].result.rows) <= 1
              /\ writes[1].disk = DiskOk => writes[1].result.rows = <<CSVHeaders>>

\* a batch-mode run whose start block lies after its end block has ended
\* with the header-only combined file
C37_Witness ==
    /\ batchBlocks > 0
    /\ startBlock > endBlock
    /\ RemoteWindow(remote, "normal", endBlock, startBlock) # <<>>
    /\ mainPc = "exit"
    /\ exitCode = "ok"
    /\ Len(writes) = 1
    /\ writes[1].result.rows = <<CSVHeaders>>

\* the converted records of the first n chunks of the run, in chunk order
RECURSIVE RecordsOfChunks(_)
RecordsOfChunks(n) ==
    IF n = 0 THEN <<>>
    ELSE RecordsOfChunks(n - 1)
         \o ChunkRecords(startBlock + (n - 1) * batchBlocks,
                         Min(startBlock + n * batchBlocks, endBlock), 1)

\* C38: The combined output does not depend on intermediate writes.  In
\* batch mode the list handed to the writer for the combined file is the
\* concatenation, in chunk order, of the converted records of every chunk of
\* the range, whether the chunk's own file was written or its write failed;
\* and every end of a loop body adds the chunk's records to that list,
\* whatever its write returns.
C38_CombinedIgnoresWriteFailures ==
    /\ [](batchBlocks > 0 =>
            /\ \A w \in 1..Len(writes) :
                  writes[w].file = "full" =>
                      /\ w = ChunkCount + 1
                      /\ writes[w].txs = RecordsOfChunks(ChunkCount)
            /\ mainPc \in {"loop", "final"} =>
                  /\ Len(writes) <= ChunkCount
                  /\ allTxs = RecordsOfChunks(Len(writes)))
    /\ [][(mainPc = "append" /\ mainPc' = "loop") => allTxs' = allTxs \o batchTxs]_vars

\* a run of two chunks whose first intermediate write failed and whose
\* second succeeded has written the records of both to the combined file
C38_Witness ==
    /\ batchBlocks > 0
    /\ mainPc = "exit"
    /\ exitCode = "ok"
    /\ ChunkCount = 2
    /\ Len(writes) = 3
    /\ writes[1].result.err # NoError /\ writes[1].txs # <<>>
    /\ writes[2].disk = DiskOk /\ writes[2].txs # <<>>
    /\ writes[3].file = "full" /\ writes[3].disk = DiskOk
    /\ writes[3].txs = writes[1].txs \o writes[2].txs

====
